---------------------------- MODULE Spec2Model ----------------------------
(***************************************************************************)
(* Model of the virt-v2v conversion wrapper (oVirt/v2v-conversion-host).  *)
(*                                                                         *)
(*   SpecStore : the State singleton (wrapper/singleton.py): keyed        *)
(*               mutation, write() at the granularity of its system       *)
(*               calls, and an external client reading the state file.    *)
(*   Spec      : the run controller, main() and wrapper() of              *)
(*               wrapper/virt_v2v_wrapper.py, one action per step of      *)
(*               the code, with the converter, the SSH agent and the      *)
(*               back-end as environment.                                  *)
(***************************************************************************)
EXTENDS Integers, Sequences, FiniteSets, TLC

VARIABLES
    \* ---- State singleton and the files it persists to
    state,          \* State.__StateObject._state, a dict (function on its keys)
    files,          \* file system: path -> content
    wpc,            \* position inside State.write()
    wdoc,           \* the local `state` of write(): the copy being dumped
    lastRead,       \* what the external client got from its last read
    snapPrev,       \* history: document persisted by the previous write()
    snapCur,        \* history: document handed to the latest write()
    stateAtCall,    \* history: _state when the latest write() was entered
    \* ---- run controller
    pc,             \* position in main()/wrapper()
    data,           \* the request read from stdin
    vault,          \* the LUKS keys vault file as found on disk
    password_files, \* main(): list of secret files written so far
    secretsOnDisk,  \* secret files that exist on disk
    exc,            \* exception in flight ("none" when there is none)
    exitStatus,     \* exit status of the process that finishes the run
    conv,           \* the converter process as seen through the Runner
    agent,          \* the ssh-agent process
    daemonized,     \* the double fork of daemonize() happened
    stdoutLines,    \* JSON documents printed on standard output
    ticks,          \* iterations of the monitor loop so far
    phases,         \* history: phases of the run completed so far, in order
    calls,          \* history: back-end calls made so far, in order
    \* ---- live log parser and the monitor loop's surroundings
    current_disk,   \* OutputParser._current_disk
    current_path,   \* OutputParser._current_path
    log,            \* lines of the converter's text log not read yet
    dropfile,       \* the throttling drop-file
    lastLine,       \* history: the line parse_line was last called on
    announced,      \* history: disk index -> path first reported for it
    linesParsed,    \* history: number of lines handed to parse_line
    \* ---- the host around the wrapper
    ifaceRate,      \* tc: interface -> rate of the conversion's class
    options,        \* output_format and allocation of the request
    domainType,     \* RHV: storage type of the target storage domain
    runs,           \* two runs of one request: environment and OpenStack options of each
    wrapperLog,     \* lines the two runs wrote to the wrapper log
    cleanup,        \* VDSMHost.handle_cleanup: where it is, its disk_ids, the deadline
    engine,         \* RHV: status of each disk, disks with an active transfer, disks asked for in the last round
    python,         \* major version of the interpreter
    call,           \* a helper of a host and the arguments it is called with
    result,         \* what the helper returned or raised
    converter,      \* what the converter has still to write to its two logs
    machine_log,    \* lines of the machine-readable log not read yet
    surfaced        \* history: errors of the converter reported to the user

storeVars == <<state, files, wpc, wdoc, lastRead, snapPrev, snapCur, stateAtCall>>
ctlVars == <<pc, data, vault, password_files, secretsOnDisk, exc, exitStatus,
             conv, agent, daemonized, stdoutLines, ticks, phases, calls>>
monVars == <<current_disk, current_path, log, dropfile, lastLine, announced, linesParsed>>
tcVars == <<ifaceRate>>
reqVars == <<options, domainType>>
logVars == <<runs, wrapperLog>>
cleanupVars == <<cleanup, engine, python>>
helperVars == <<call, result>>
chunkVars == <<converter, machine_log, surfaced>>
hostVars == <<tcVars, reqVars, logVars, cleanupVars, helperVars, chunkVars>>
vars == <<state, files, wpc, wdoc, lastRead, snapPrev, snapCur, stateAtCall,
          pc, data, vault, password_files, secretsOnDisk, exc, exitStatus,
          conv, agent, daemonized, stdoutLines, ticks, phases, calls,
          current_disk, current_path, log, dropfile, lastLine, announced, linesParsed,
          ifaceRate,
          options,
          domainType,
          runs,
          wrapperLog,
          cleanup,
          engine,
          python,
          call,
          result,
          converter, machine_log, surfaced>>

----------------------------------------------------------------------------
(* Bounds                                                                   *)

\* json.dump() reaches the file in this many pieces
JsonChunks == 2
\* iterations of the monitor loop that are explored
MaxTicks == 2

----------------------------------------------------------------------------
(* State singleton: wrapper/singleton.py                                    *)

\* Python None where an integer is expected (return_code)
RcNone == -2
\* Python None where a string is expected
None == "None"

\* State.__StateObject.__init__: the initial dict
InitialState ==
    [disks |-> << >>,
     internal |-> [disk_ids |-> << >>, display_name |-> None,
                   ports |-> << >>, throttling_file |-> None],
     failed |-> FALSE,
     throttling |-> [cpu |-> None, network |-> None]]

\* State.__StateObject.__setitem__: self._state[key] = value
SetItem(s, key, value) ==
    [k \in DOMAIN s \cup {key} |-> IF k = key THEN value ELSE s[k]]

\* dict.get(key, default), reached through State.__getattr__
Get(s, key, default) == IF key \in DOMAIN s THEN s[key] ELSE default

\* A dict without one key
Strip(s, key) == [k \in DOMAIN s \ {key} |-> s[k]]

\* A bug write() could have: `state = self._state` without the copy
CopyAndStripAliased(s) == [mem |-> Strip(s, "internal"), doc |-> Strip(s, "internal")]

\* write(), first two statements: state = self._state.copy(); del state['internal']
\* mem is self._state afterwards, doc the local copy that gets dumped
CopyAndStrip(s) == [mem |-> s, doc |-> Strip(s, "internal")]

\* The two paths write() touches
StatePath == "state_file"
TmpPath == "tmp.v2v.state"
Paths == {StatePath, TmpPath}

\* Content of a path: absent, or the first `written` pieces of a document
NoDoc == [absent |-> TRUE]
Absent == [exists |-> FALSE, doc |-> NoDoc, written |-> 0]
Content(d, n) == [exists |-> TRUE, doc |-> d, written |-> n]
Complete(c) == c.exists /\ c.written = JsonChunks

\* A bug write() could have: dumping straight into the state file
MkstempInPlace == StatePath

\* write(): tempfile.mkstemp(suffix='.v2v.state', dir=dirname(state_file))
\* returns a fresh path next to the state file
Mkstemp == TmpPath

\* os.rename(src, dst): dst is replaced by src in one step
Rename(fs, src, dst) ==
    IF src = dst THEN fs
    ELSE [p \in Paths |-> IF p = dst THEN fs[src]
                          ELSE IF p = src THEN Absent ELSE fs[p]]

\* write() as one step, for callers that nobody observes half way
Write(s, fs) ==
    LET c == CopyAndStrip(s)
        created == [fs EXCEPT ![Mkstemp] = Content(c.doc, JsonChunks)]
    IN [mem |-> c.mem, files |-> Rename(created, Mkstemp, StatePath)]

----------------------------------------------------------------------------
(* Live log parser: wrapper/log_parser.py                                   *)

\* Disk numbers K and M of "Copying disk K/M to ..." lines that are explored
MaxDiskNo == 2
\* Entries of source_disks that are explored
MaxSeed == 3
\* Lines handed to parse_line that are explored
MaxLines == 4

\* OutputParser._current_disk while it is None (the converter counts its
\* disks from 1, so a disk index is never negative)
NoneDisk == -1
\* The search loop of _locate_disk ended without a hit
NotFound == -1

\* Paths as they stand in the disks list
PathA == "[s1] vm/a.vmdk"
PathB == "[s1] vm/b.vmdk"
PathC == "[s1] vm/c.vmdk"
DiskPaths == {PathA, PathB, PathC}

\* Paths as the overlay lines of the converter report them
RawPaths ==
    {"/vmfs/volumes/s1/vm/a-flat.vmdk", "/vmfs/volumes/s1/vm/b.vmdk"}

\* VMDK_PATH_RE.sub(br'[\g<store>] \g<vm>/\g<disk>.vmdk', path): a path
\* /vmfs/volumes/<store>/<vm>/<disk>(-flat)?.vmdk is rewritten, any other
\* path is returned as it is
VmdkPathSub(path) ==
    CASE path = "/vmfs/volumes/s1/vm/a-flat.vmdk" -> PathA
      [] path = "/vmfs/volumes/s1/vm/a.vmdk" -> PathA
      [] path = "/vmfs/volumes/s1/vm/b-flat.vmdk" -> PathB
      [] path = "/vmfs/volumes/s1/vm/b.vmdk" -> PathB
      [] path = "/vmfs/volumes/s1/vm/c.vmdk" -> PathC
      [] OTHER -> path

\* float(b'X.Y') for a reading with two decimals, in hundredths of a percent
Float(whole, hundredths) == whole * 100 + hundredths

\* A line of the text log, by the expression of OutputParser it matches:
\*   copy          COPY_DISK_RE, n1/n2 the two numbers
\*   nbdkit        NBDKIT_DISK_PATH_RE, s the path
\*   overlay       OVERLAY_SOURCE_RE, s the file.path
\*   overlay2      OVERLAY_SOURCE2_RE, s the file.path
\*   progress      DISK_PROGRESS_RE, n1.n2 the reading
\*   disk_id       RHV_DISK_UUID, s the uuid
\*   display_name  SSH_VMX_GUEST_NAME, s the name
\*   vm_id         RHV_VM_ID, s the uuid
\*   osp_volume    OSP_VOLUME_ID, s the uuid
\*   other         none of them
Line(kind, n1, n2, s) == [kind |-> kind, n1 |-> n1, n2 |-> n2, s |-> s]
NoLine == Line("none", 0, 0, "")
PathKinds == {"nbdkit", "overlay", "overlay2"}
Lines ==
    {Line("copy", k, m, "") : k \in 1..MaxDiskNo, m \in 1..MaxDiskNo}
    \cup {Line("nbdkit", 0, 0, p) : p \in {PathA, PathC}}
    \cup {Line("overlay", 0, 0, "/vmfs/volumes/s1/vm/b.vmdk"),
          Line("overlay2", 0, 0, "/vmfs/volumes/s1/vm/a-flat.vmdk")}
    \cup {Line("progress", 10, 42, ""), Line("progress", 50, 0, "")}
    \cup {Line("disk_id", 0, 0, u) : u \in {"11111111", "22222222"}}
    \cup {Line("osp_volume", 0, 0, u) : u \in {"aaaaaaaa", "bbbbbbbb"}}
    \cup {Line("display_name", 0, 0, "vm"), Line("vm_id", 0, 0, "33333333"),
          Line("other", 0, 0, "")}

\* A bug list.insert could be used with: adding at the end of the list
ListInsertAtEnd(seq, i, x) == Append(seq, x)

\* list.insert(i, x) for i >= 0: an index past the end appends
ListInsert(seq, i, x) ==
    LET pos == IF i > Len(seq) THEN Len(seq) ELSE i
    IN [k \in 1..(Len(seq) + 1) |->
          IF k <= pos THEN seq[k] ELSE IF k = pos + 1 THEN x ELSE seq[k - 1]]

\* list.pop(i) for 0 <= i < len: the list without its element i
ListPop(seq, i) ==
    [k \in 1..(Len(seq) - 1) |-> IF k <= i THEN seq[k] ELSE seq[k + 1]]

\* _locate_disk: for i in xrange(self._current_disk, len(state['disks'])):
\*                   if state['disks'][i]['path'] == self._current_path
\* the first such i (Python indices, from 0), or NotFound
FindFrom(disks, c, p) ==
    LET hits == {i \in c..(Len(disks) - 1) : disks[i + 1].path = p}
    IN IF hits = {} THEN NotFound
       ELSE CHOOSE i \in hits : \A j \in hits : i <= j

\* A bug _locate_disk could have: exchanging the two entries
LocateDiskSwap(disks, c, p) ==
    IF c = NoneDisk THEN disks
    ELSE LET i == FindFrom(disks, c, p)
         IN IF i = NotFound
            THEN ListInsert(disks, c, [path |-> p, progress |-> 0])
            ELSE [disks EXCEPT ![c + 1] = disks[i + 1], ![i + 1] = disks[c + 1]]

\* _locate_disk(state) with _current_disk = c and _current_path = p: the
\* disks list afterwards
LocateDisk(disks, c, p) ==
    IF c = NoneDisk THEN disks
    ELSE LET i == FindFrom(disks, c, p)
         IN IF i = NotFound
            THEN ListInsert(disks, c, [path |-> p, progress |-> 0])
            ELSE IF i = c THEN disks
            ELSE ListInsert(ListPop(disks, i), c, disks[i + 1])

\* An integer key of disk_ids. The keys of a dict of the model are strings,
\* so the integer n is written as its numeral; no path is a numeral.
IntKey(n) == <<"1", "2", "3", "4", "5", "6", "7", "8">>[n]

\* A bug parse_line could have: keeping the converter's 1-based number
CopyDiskIndexOneBased(k) == k

\* parse_line: self._current_disk = int(m.group(1))-1
CopyDiskIndex(k) == k - 1

\* What parse_line leaves behind: the state, the two fields of the parser,
\* and the exception it raised ("none" when it returned)
ParseResult(s, cd, cp, e) ==
    [state |-> s, current_disk |-> cd, current_path |-> cp, raised |-> e]

\* parse_line, the three branches that learn a path: set _current_path and,
\* when a disk is being copied, _locate_disk
PathLine(s, cd, p) ==
    ParseResult(IF cd # NoneDisk
                THEN [s EXCEPT !["disks"] = LocateDisk(@, cd, p)] ELSE s,
                cd, p, "none")

\* parse_line(state, line)
ParseLine(s, cd, cp, line) ==
    CASE line.kind = "copy" ->
           ParseResult(SetItem(s, "disk_count", line.n2),
                       CopyDiskIndex(line.n1), None, "none")
      [] line.kind = "nbdkit" -> PathLine(s, cd, line.s)
      [] line.kind \in {"overlay", "overlay2"} ->
           PathLine(s, cd, VmdkPathSub(line.s))
      [] line.kind = "progress" ->
           IF cp # None /\ cd # NoneDisk
           THEN IF cd < Len(s["disks"])
                THEN ParseResult(
                       [s EXCEPT !["disks"][cd + 1].progress =
                                     Float(line.n1, line.n2)],
                       cd, cp, "none")
                ELSE ParseResult(s, cd, cp, "IndexError")
           ELSE ParseResult(s, cd, cp, "none")
      [] line.kind = "disk_id" ->
           \* path = state['disks'][self._current_disk]['path']
           IF cd = NoneDisk THEN ParseResult(s, cd, cp, "TypeError")
           ELSE IF cd >= Len(s["disks"]) THEN ParseResult(s, cd, cp, "IndexError")
           ELSE ParseResult(
                  [s EXCEPT !["internal"].disk_ids =
                                SetItem(@, s["disks"][cd + 1].path, line.s)],
                  cd, cp, "none")
      [] line.kind = "osp_volume" ->
           \* ids = state['internal']['disk_ids']; ids[len(ids)+1] = volume_id
           ParseResult(
             [s EXCEPT !["internal"].disk_ids =
                           SetItem(@, IntKey(Cardinality(DOMAIN @) + 1), line.s)],
             cd, cp, "none")
      [] line.kind = "display_name" ->
           ParseResult([s EXCEPT !["internal"].display_name = line.s],
                       cd, cp, "none")
      [] line.kind = "vm_id" ->
           ParseResult(SetItem(s, "vm_id", line.s), cd, cp, "none")
      [] OTHER -> ParseResult(s, cd, cp, "none")

\* The throttling drop-file is not there
NoDrop == [exists |-> FALSE, readable |-> TRUE, content |-> "none"]

\* No disk has been reported yet
NoAnnounced == [i \in 0..(MaxDiskNo - 1) |-> None]

\* A parser just constructed, nothing logged, no drop-file
MonQuiet ==
    /\ current_disk = NoneDisk
    /\ current_path = None
    /\ log = << >>
    /\ dropfile = NoDrop
    /\ lastLine = NoLine
    /\ announced = NoAnnounced
    /\ linesParsed = 0

\* Interfaces on which TcController._prepare set up the conversion's class
MaxIfaces == 2
Interfaces == 1..MaxIfaces
\* TcController.MAX_RATE, as tc is given it
MAX_RATE == "4294967295"

\* Names of environment variables and of OpenStack options, in pieces, so
\* that the letters of one piece can be told from those of another
LANG == <<"LANG">>
PROXY_PASSWORD == <<"PROXY_", "PASSWORD">>
os_auth_url == <<"os_", "auth_url">>
os_password == <<"os_", "password">>
Item(name, value) == [name |-> name, value |-> value]
\* The environment the wrapper got without a variable named after a
\* password, and the OpenStack options of a request
PlainRun ==
    [environ |-> <<Item(LANG, "C")>>,
     osp_environment |-> <<Item(os_auth_url, "http://osp"), Item(os_password, "s1")>>]

\* Disks the engine knows by the ids the converter reported
CleanupIds == {"11111111", "22222222"}
\* handle_cleanup has not been called
NoCleanup == [pc |-> "off", disk_ids |-> << >>, late |-> FALSE]
CleanupOff ==
    /\ cleanup = NoCleanup
    /\ engine = [status |-> [d \in CleanupIds |-> "gone"], transfers |-> {},
                asked |-> << >>]
    /\ python = 3
\* No helper is being called
NoCall == [fn |-> "none"]
NoResult == [raised |-> "none", returned |-> FALSE, value |-> << >>]
HelpersOff ==
    /\ call = NoCall
    /\ result = NoResult

\* No converter writes, nothing is read from the machine-readable log
NoConverter == [text |-> << >>, machine |-> << >>, part |-> {}]
ChunksOff ==
    /\ converter = NoConverter
    /\ machine_log = << >>
    /\ surfaced = << >>

\* A request with neither output_format nor allocation
NoOptions == [output_format |-> "absent", allocation |-> "absent"]

\* _create_class: every managed interface starts with 'rate' MAX_RATE; the
\* target storage domain is a file domain
HostQuiet ==
    /\ ifaceRate = [i \in Interfaces |-> MAX_RATE]
    /\ domainType = "nfs"
    /\ runs = [r \in 1..2 |-> PlainRun]
    /\ CleanupOff
    /\ HelpersOff
    /\ ChunksOff

----------------------------------------------------------------------------
(* The State store on its own: mutation, write() step by step, a reader     *)

\* Values the store specification assigns through __setitem__
StoreItems ==
    {<<"failed", TRUE>>, <<"failed", FALSE>>, <<"finished", TRUE>>,
     <<"return_code", 0>>}
StoreDisplayNames == {None, "vm"}

\* The request before it is read
NoData ==
    [vm_name |-> FALSE, transport_method |-> "absent", targets |-> {},
     daemonize |-> TRUE, secrets |-> {}, throttling |-> "absent",
     source_disks |-> << >>]
NoConv == [st |-> "none", rc |-> RcNone, killed |-> FALSE]

\* The run controller is not running
CtlOff ==
    /\ pc = "off"
    /\ data = NoData
    /\ vault = "absent"
    /\ password_files = << >>
    /\ secretsOnDisk = {}
    /\ exc = "none"
    /\ exitStatus = -1
    /\ conv = NoConv
    /\ agent = "none"
    /\ daemonized = FALSE
    /\ stdoutLines = 0
    /\ ticks = 0
    /\ phases = << >>
    /\ calls = << >>

\* The store is not in the middle of a write()
StoreQuiet ==
    /\ wpc = "idle"
    /\ wdoc = NoDoc
    /\ lastRead = [content |-> Absent, at |-> "idle"]
    /\ snapPrev = NoDoc
    /\ snapCur = NoDoc
    /\ stateAtCall = InitialState

InitStore ==
    /\ state = InitialState
    /\ files = [p \in Paths |-> Absent]
    /\ StoreQuiet
    /\ CtlOff
    /\ MonQuiet
    /\ HostQuiet
    /\ options = NoOptions
    /\ wrapperLog = [r \in 1..2 |-> << >>]

\* state[key] = value, from the thread that owns the store
StoreSetItem ==
    /\ wpc = "idle"
    /\ \E kv \in StoreItems : state' = SetItem(state, kv[1], kv[2])
    /\ UNCHANGED <<files, wpc, wdoc, lastRead, snapPrev, snapCur, stateAtCall>>
    /\ UNCHANGED ctlVars
    /\ UNCHANGED monVars
    /\ UNCHANGED hostVars

\* state['internal']['display_name'] = value (log_parser.py does this)
StoreSetInternal ==
    /\ wpc = "idle"
    /\ "internal" \in DOMAIN state
    /\ \E n \in StoreDisplayNames :
          state' = [state EXCEPT !["internal"].display_name = n]
    /\ UNCHANGED <<files, wpc, wdoc, lastRead, snapPrev, snapCur, stateAtCall>>
    /\ UNCHANGED ctlVars
    /\ UNCHANGED monVars
    /\ UNCHANGED hostVars

\* write(): state = self._state.copy(); del state['internal']
WriteCopy ==
    /\ wpc = "idle"
    /\ state' = CopyAndStrip(state).mem
    /\ wdoc' = CopyAndStrip(state).doc
    /\ wpc' = "mkstemp"
    /\ snapPrev' = snapCur
    /\ snapCur' = Strip(state, "internal")
    /\ stateAtCall' = state
    /\ UNCHANGED <<files, lastRead>>
    /\ UNCHANGED ctlVars
    /\ UNCHANGED monVars
    /\ UNCHANGED hostVars

\* write(): tmp_state = tempfile.mkstemp(...); os.fdopen(tmp_state[0], 'w')
WriteMkstemp ==
    /\ wpc = "mkstemp"
    /\ files' = [files EXCEPT ![Mkstemp] = Content(wdoc, 0)]
    /\ wpc' = "dump"
    /\ UNCHANGED <<state, wdoc, lastRead, snapPrev, snapCur, stateAtCall>>
    /\ UNCHANGED ctlVars
    /\ UNCHANGED monVars
    /\ UNCHANGED hostVars

\* write(): json.dump(state, f), one piece at a time; the with block closes f
WriteDump ==
    /\ wpc = "dump"
    /\ files[Mkstemp].written < JsonChunks
    /\ files' = [files EXCEPT ![Mkstemp].written = @ + 1]
    /\ wpc' = IF files[Mkstemp].written + 1 = JsonChunks THEN "rename" ELSE "dump"
    /\ UNCHANGED <<state, wdoc, lastRead, snapPrev, snapCur, stateAtCall>>
    /\ UNCHANGED ctlVars
    /\ UNCHANGED monVars
    /\ UNCHANGED hostVars

\* write(): os.rename(tmp_state[1], self.state_file)
WriteRename ==
    /\ wpc = "rename"
    /\ files' = Rename(files, Mkstemp, StatePath)
    /\ wpc' = "idle"
    /\ wdoc' = NoDoc
    /\ UNCHANGED <<state, lastRead, snapPrev, snapCur, stateAtCall>>
    /\ UNCHANGED ctlVars
    /\ UNCHANGED monVars
    /\ UNCHANGED hostVars

\* An external client opens the state file and reads it
ReadStateFile ==
    /\ lastRead' = [content |-> files[StatePath], at |-> wpc]
    /\ lastRead' # lastRead
    /\ UNCHANGED <<state, files, wpc, wdoc, snapPrev, snapCur, stateAtCall>>
    /\ UNCHANGED ctlVars
    /\ UNCHANGED monVars
    /\ UNCHANGED hostVars

NextStore ==
    \/ StoreSetItem
    \/ StoreSetInternal
    \/ WriteCopy
    \/ WriteMkstemp
    \/ WriteDump
    \/ WriteRename
    \/ ReadStateFile

SpecStore == InitStore /\ [][NextStore]_vars

----------------------------------------------------------------------------
(* Claims about the State store                                             *)

\* A first write() has returned, so the state file exists from now on
FirstWriteReturned == snapCur # NoDoc /\ (wpc = "idle" \/ snapPrev # NoDoc)

\* C1: every read of the state file by an external reader, at any point of
\* any write(), returns a complete document, and that document is the
\* snapshot persisted by the previous write() or the one being persisted now
\* (the latter only, when no write() is in progress); a partly written
\* document is never seen at the state-file path.
C1_AtomicWrite ==
    [][ReadStateFile =>
         /\ lastRead'.content.exists => Complete(lastRead'.content)
         /\ FirstWriteReturned =>
               /\ lastRead'.content.exists
               /\ lastRead'.content.doc \in
                     (IF wpc = "idle" THEN {snapCur} ELSE {snapPrev, snapCur})]_vars

\* C1 witness: a read made while the next document was only partly dumped
\* returned the previous snapshot, which differs from the new one
C1_Witness ==
    /\ lastRead.at = "dump"
    /\ wpc = "dump"
    /\ files[TmpPath].exists /\ ~Complete(files[TmpPath])
    /\ files[TmpPath].written > 0
    /\ lastRead.content.exists
    /\ lastRead.content.doc = snapPrev
    /\ snapPrev # snapCur

\* C2: when write() returns, the in-memory snapshot is what it was when
\* write() was called, `internal` included, and the persisted document is
\* that snapshot without the `internal` key.
C2_InternalNotPersisted ==
    [][(wpc = "rename" /\ wpc' = "idle") =>
         /\ state' = stateAtCall
         /\ "internal" \in DOMAIN state'
         /\ state'["internal"] = stateAtCall["internal"]
         /\ Complete(files'[StatePath])
         /\ "internal" \notin DOMAIN files'[StatePath].doc
         /\ files'[StatePath].doc = Strip(state', "internal")]_vars

\* C2 witness: a write() has returned while `internal` held a display name
C2_Witness ==
    /\ wpc = "idle"
    /\ files[StatePath].exists
    /\ "internal" \in DOMAIN state
    /\ state["internal"].display_name = "vm"
    /\ files[StatePath].doc = Strip(state, "internal")
    /\ lastRead.content = files[StatePath]

----------------------------------------------------------------------------
(* Run controller: wrapper/virt_v2v_wrapper.py, main() and wrapper()        *)

\* Requests the controller is run on.  A field says whether the key is in
\* the request and, where the code looks at it, what it holds.
\*   targets      : which of export_domain, rhv_url, osp_environment are there
\*   secrets      : which of vmware_password, rhv_password, ssh_key are there
\*   throttling   : absent, a mapping of strings, or something else
\*   source_disks : the list of paths (empty: key absent)
TargetKeys == {"export_domain", "rhv_url", "osp_environment"}
SecretKeys == <<"vmware_password", "rhv_password", "ssh_key">>
Requests ==
    [vm_name : BOOLEAN,
     transport_method : {"absent", "vddk", "ssh", "bogus"},
     targets : SUBSET TargetKeys,
     daemonize : BOOLEAN,
     secrets : SUBSET {"vmware_password", "rhv_password", "ssh_key"},
     throttling : {"absent", "valid", "malformed"},
     source_disks : {<< >>, <<"[s1] a.vmdk">>}]

\* The LUKS keys vault at data['luks_keys_vault']: missing, owned by somebody
\* else, open to others, open to the group, or private to the converter user
Vaults == {"absent", "not_owner", "others", "group", "private"}

Range(seq) == {seq[i] : i \in 1..Len(seq)}

\* output_format and allocation as the request has them: absent, a value the
\* converter knows, or something else
Options ==
    [output_format : {"absent", "raw", "qcow2", "bogus"},
     allocation : {"absent", "sparse", "preallocated", "bogus"}]

\* VDSMHost.__init__: PREALLOCATED_STORAGE_TYPES, of which iscsi is one;
\* nfs is not
PREALLOCATED_STORAGE_TYPES == {"cinder", "fcp", "glusterfs", "iscsi", "posixfs"}

\* VDSMHost.validate_data: the defaults it fills in; the other hosts leave
\* output_format and allocation alone
ValidatedOptions(h, o, dt) ==
    IF h # "vdsm" THEN o
    ELSE [output_format |-> IF o.output_format = "absent" THEN "raw"
                            ELSE o.output_format,
          allocation |-> IF o.allocation # "absent" THEN o.allocation
                         ELSE IF dt \in PREALLOCATED_STORAGE_TYPES
                         THEN "preallocated" ELSE "sparse"]

\* hosts.py BaseHost.detect
Detect(d) ==
    IF "export_domain" \in d.targets \/ "rhv_url" \in d.targets THEN "vdsm"
    ELSE IF "osp_environment" \in d.targets THEN "osp"
    ELSE IF ~d.daemonize THEN "cnv"
    ELSE "unknown"

\* hosts.py create_runner of the three hosts
RunnerKind(d) ==
    IF Detect(d) = "cnv" THEN "subprocess"
    ELSE IF d.daemonize THEN "systemd" ELSE "subprocess"

\* common.py hard_error: sys.exit(1)
HardErrorStatus == 1
\* exit status of the interpreter when main() ends by an exception
UncaughtStatus == 1

\* A bug main() could have: reporting success whatever state['failed'] says
ExitCodeAlwaysZero(failed) == 0

\* main(), last statement: if state['failed']: sys.exit(2)
ExitCode(failed) == IF failed THEN 2 ELSE 0

\* wrapper(): if state['return_code'] != 0
ConverterFailed(rc) == rc # 0

\* A bug the runners could have: kill() that signals nothing
KillRunnerNoop(c) == c

\* runners.py kill(): the kill request reaches the converter
KillRunner(c) == [c EXCEPT !.killed = TRUE]

\* A bug main() could have: starting the converter without the agent
NeedsAgentNever(d) == FALSE

\* main(): if data['transport_method'] == 'ssh'
NeedsAgent(d) == d.transport_method = "ssh"

\* A bug main() could have: leaving the files behind when an exception ends it
RemovePasswordFilesKeep(onDisk, pfiles) == onDisk

\* main(): for f in password_files: os.remove(f)
RemovePasswordFiles(onDisk, pfiles) == onDisk \ Range(pfiles)

\* A bug main() could have: cleanup without the finally that marks the end
MarkFinishedAfterCleanupSkip(s, raised) == IF raised THEN s ELSE SetItem(s, "finished", TRUE)

\* main(): try: handle_cleanup() finally: state['finished'] = True
MarkFinishedAfterCleanup(s, raised) == SetItem(s, "finished", TRUE)

\* A bug main() could have: cleaning up after every run
ShouldCleanupAlways(s) == TRUE

\* main(): if state.get('failed', False), guarding the cleanup
ShouldCleanup(s) == Get(s, "failed", FALSE)

\* main(): if not state.get('failed', False), guarding handle_finish
ShouldFinish(s) == ~Get(s, "failed", FALSE)

\* common.py error(): state['last_message'] = {...}; state.write()
ErrorReport(s, fs, msg) ==
    Write(SetItem(s, "last_message", [message |-> msg, type |-> "error"]), fs)

\* write_password() for each secret key of the request, in the order of main()
SecretFilesFor(d) ==
    LET F[i \in 0..Len(SecretKeys)] ==
          IF i = 0 THEN << >>
          ELSE IF SecretKeys[i] \in d.secrets
               THEN Append(F[i-1], SecretKeys[i]) ELSE F[i-1]
    IN F[Len(SecretKeys)]

\* Outcomes of host.handle_finish: True, False, or an exception
FinishOutcomes(h) ==
    IF h = "osp" THEN {"true", "false", "raise"}
    ELSE IF h = "cnv" THEN {"true", "raise"}
    ELSE {"true"}

\* Outcomes of host.handle_cleanup: returns, or an exception
CleanupOutcomes(h) == IF h = "cnv" THEN {"ok"} ELSE {"ok", "raise"}

\* Exit statuses of the converter: success, failure, death by a signal
\* (Popen.returncode is then the negated signal number)
ConverterExitCodes == {0, 1, -9}

ExitedPcs == {"exit_normal", "exit_hard_error", "exit_uncaught"}

Init ==
    /\ state = InitialState
    /\ files = [p \in Paths |-> Absent]
    /\ StoreQuiet
    /\ pc = "m_start"
    /\ data = NoData
    /\ vault \in Vaults
    /\ password_files = << >>
    /\ secretsOnDisk = {}
    /\ exc = "none"
    /\ exitStatus = -1
    /\ conv = NoConv
    /\ agent = "none"
    /\ daemonized = FALSE
    /\ stdoutLines = 0
    /\ ticks = 0
    /\ phases = << >>
    /\ calls = << >>
    /\ MonQuiet
    /\ HostQuiet
    /\ options \in {o \in Options : o.output_format = "absent"
                                  /\ o.allocation \in {"absent", "sparse"}}
    /\ wrapperLog = [r \in 1..2 |-> << >>]

\* hard_error(msg): log, write to stderr, sys.exit(1).  SystemExit is not an
\* Exception, so no handler of main() runs.
HardError ==
    /\ pc' = "exit_hard_error"
    /\ exitStatus' = HardErrorStatus

\* An exception leaves main(): the interpreter prints it and exits
Uncaught(e) ==
    /\ pc' = "exit_uncaught"
    /\ exc' = e
    /\ exitStatus' = UncaughtStatus

\* main() up to BaseHost.factory: read the request, detect the host, set
\* the paths (state['internal']['throttling_file'] among them)
M_Start ==
    /\ pc = "m_start"
    /\ \E d \in Requests :
         /\ data' = d
         /\ IF Detect(d) = "unknown"
            THEN Uncaught("Cannot build host of type") /\ UNCHANGED state
            ELSE /\ pc' = "m_caps"
                 /\ state' = [state EXCEPT !["internal"].throttling_file = "throttle"]
                 /\ UNCHANGED <<exc, exitStatus>>
    /\ UNCHANGED <<files, wpc, wdoc, lastRead, snapPrev, snapCur, stateAtCall>>
    /\ UNCHANGED monVars
    /\ UNCHANGED hostVars
    /\ UNCHANGED <<vault, password_files, secretsOnDisk, conv, agent,
                   daemonized, stdoutLines, ticks, phases, calls>>

\* main(): virt_v2v_caps = virt_v2v_capabilities(); None is a hard error
M_Caps ==
    /\ pc = "m_caps"
    /\ \E ok \in BOOLEAN :
         IF ok THEN pc' = "m_validate" /\ UNCHANGED exitStatus
         ELSE HardError
    /\ UNCHANGED storeVars
    /\ UNCHANGED monVars
    /\ UNCHANGED hostVars
    /\ UNCHANGED <<data, vault, password_files, secretsOnDisk, exc, conv, agent,
                   daemonized, stdoutLines, ticks, phases, calls>>

\* main(): the generic checks, host.check_install_drivers and
\* host.validate_data.  The back-end part depends on keys and on the target
\* system; its outcome is chosen here: it passes, it calls hard_error, or
\* (RHV, which opens an SDK connection to find a default for allocation) it
\* raises.  VDSMHost.validate_data checks output_format, looks at the keys
\* of the target, and without allocation asks the SDK at data['rhv_url']: a
\* KeyError for a request with export_domain alone.  allocation itself is
\* not looked at.
BackendValidateOutcomes(h, d, o) ==
    IF h = "cnv" THEN {"ok"}
    ELSE IF h = "osp" THEN {"ok", "hard_error"}
    ELSE IF o.output_format \notin {"absent", "raw", "qcow2"} THEN {"hard_error"}
    ELSE IF "rhv_url" \in d.targets
    THEN {"ok", "hard_error"}
         \cup (IF o.allocation = "absent" THEN {"raise"} ELSE {})
    ELSE IF o.allocation = "absent" THEN {"key_error"} ELSE {"ok"}

M_Validate ==
    /\ pc = "m_validate"
    /\ IF ~data.vm_name THEN HardError /\ UNCHANGED <<exc, phases, options>>
       ELSE IF data.transport_method = "absent" THEN HardError /\ UNCHANGED <<exc, phases, options>>
       ELSE IF data.transport_method = "bogus"
            \* hard_error('Unknown transport method: %s', x): two arguments
            \* to a function of one, a TypeError
            THEN pc' = "m_outer_except" /\ exc' = "TypeError"
                 /\ UNCHANGED <<exitStatus, phases, options>>
       ELSE IF data.transport_method = "vddk" /\ "vmware_password" \notin data.secrets
            THEN HardError /\ UNCHANGED <<exc, phases, options>>
       ELSE \E r \in BackendValidateOutcomes(Detect(data), data, options) :
              CASE r = "ok" ->
                     /\ pc' = "m_secrets"
                     /\ phases' = Append(phases, "validated")
                     /\ options' = ValidatedOptions(Detect(data), options, domainType)
                     /\ UNCHANGED <<exc, exitStatus>>
                [] r = "hard_error" ->
                     HardError /\ UNCHANGED <<exc, phases, options>>
                [] r = "raise" ->
                     /\ pc' = "m_outer_except" /\ exc' = "sdk.Error"
                     /\ UNCHANGED <<exitStatus, phases, options>>
                [] r = "key_error" ->
                     /\ pc' = "m_outer_except" /\ exc' = "KeyError"
                     /\ UNCHANGED <<exitStatus, phases, options>>
    /\ UNCHANGED storeVars
    /\ UNCHANGED monVars
    /\ UNCHANGED <<tcVars, domainType, logVars, cleanupVars, helperVars, chunkVars>>
    /\ UNCHANGED <<data, vault, password_files, secretsOnDisk, conv, agent,
                   daemonized, stdoutLines, ticks, calls>>

\* main(): "Store password(s)": write_password for every secret in the request
M_Secrets ==
    /\ pc = "m_secrets"
    /\ password_files' = password_files \o SecretFilesFor(data)
    /\ secretsOnDisk' = secretsOnDisk \cup Range(SecretFilesFor(data))
    /\ pc' = "m_luks"
    /\ phases' = Append(phases, "secrets_written")
    /\ UNCHANGED storeVars
    /\ UNCHANGED monVars
    /\ UNCHANGED hostVars
    /\ UNCHANGED <<data, vault, exc, exitStatus, conv, agent,
                   daemonized, stdoutLines, ticks, calls>>

\* main(): the LUKS keys vault.  The ownership and permission checks call
\* hard_error; a vault that passes them is handed to json.load() as a path
\* string, which raises AttributeError, so no LUKS key file is ever written.
M_Luks ==
    /\ pc = "m_luks"
    /\ CASE vault = "absent" ->
              pc' = "m_state_create" /\ UNCHANGED <<exc, exitStatus>>
         [] vault \in {"not_owner", "others", "group"} ->
              HardError /\ UNCHANGED exc
         [] vault = "private" ->
              pc' = "m_outer_except" /\ exc' = "AttributeError"
              /\ UNCHANGED exitStatus
    /\ UNCHANGED storeVars
    /\ UNCHANGED monVars
    /\ UNCHANGED hostVars
    /\ UNCHANGED <<data, vault, password_files, secretsOnDisk, conv, agent,
                   daemonized, stdoutLines, ticks, phases, calls>>


\* main(): seed state['disks'] from source_disks, then "Create state file
\* before dumping the JSON": state.write()
SeedDisks(s, d) ==
    IF d.source_disks = << >> THEN s
    ELSE SetItem(SetItem(s, "disks",
                         [i \in 1..Len(d.source_disks) |->
                            [path |-> d.source_disks[i], progress |-> 0]]),
                 "disk_count", Len(d.source_disks))

M_StateCreate ==
    /\ pc = "m_state_create"
    /\ LET w == Write(SeedDisks(state, data), files)
       IN state' = w.mem /\ files' = w.files
    /\ pc' = "m_advert"
    /\ phases' = Append(phases, "state_created")
    /\ UNCHANGED <<wpc, wdoc, lastRead, snapPrev, snapCur, stateAtCall>>
    /\ UNCHANGED monVars
    /\ UNCHANGED hostVars
    /\ UNCHANGED <<data, vault, password_files, secretsOnDisk, exc, exitStatus,
                   conv, agent, daemonized, stdoutLines, ticks, calls>>

\* main(): print(json.dumps({v2v_log, wrapper_log, state_file, throttling_file}))
M_Advert ==
    /\ pc = "m_advert"
    /\ stdoutLines' = stdoutLines + 1
    /\ pc' = "m_daemonize"
    /\ phases' = Append(phases, "advertised")
    /\ UNCHANGED storeVars
    /\ UNCHANGED monVars
    /\ UNCHANGED hostVars
    /\ UNCHANGED <<data, vault, password_files, secretsOnDisk, exc, exitStatus,
                   conv, agent, daemonized, ticks, calls>>

\* main(): daemonize() when asked to, a stdout log handler otherwise.  The
\* two parents of the double fork leave through sys.exit(0); the model
\* follows the process that goes on with the run.
M_Daemonize ==
    /\ pc = "m_daemonize"
    /\ daemonized' = data.daemonize
    /\ phases' = Append(phases, IF data.daemonize THEN "daemonized" ELSE "foreground")
    /\ pc' = "m_agent"
    /\ UNCHANGED storeVars
    /\ UNCHANGED monVars
    /\ UNCHANGED hostVars
    /\ UNCHANGED <<data, vault, password_files, secretsOnDisk, exc, exitStatus,
                   conv, agent, stdoutLines, ticks, calls>>

\* main(): spawn_ssh_agent() for the ssh transport.  It returns (None, None)
\* after error() when ssh-agent cannot be started or its output not parsed,
\* and also when ssh-add fails, in which case it has killed the agent it
\* started; main() then raises RuntimeError.
M_Agent ==
    /\ pc = "m_agent"
    /\ IF NeedsAgent(data)
       THEN \E r \in {"ok", "agent_failed", "add_failed"} :
              CASE r = "ok" ->
                     /\ agent' = "running"
                     /\ phases' = Append(phases, "ssh_agent_ready")
                     /\ pc' = "w_run"
                     /\ UNCHANGED <<state, files, exc>>
                [] r = "agent_failed" ->
                     /\ LET w == ErrorReport(state, files, "Failed to start ssh-agent")
                        IN state' = w.mem /\ files' = w.files
                     /\ pc' = "m_inner_except"
                     /\ exc' = "Failed to start ssh-agent"
                     /\ UNCHANGED <<agent, phases>>
                [] r = "add_failed" ->
                     /\ LET w == ErrorReport(state, files,
                                             "Failed to add SSH keys to the agent")
                        IN state' = w.mem /\ files' = w.files
                     /\ agent' = "killed"
                     /\ pc' = "m_inner_except"
                     /\ exc' = "Failed to start ssh-agent"
                     /\ UNCHANGED phases
       ELSE /\ pc' = "w_run"
            /\ UNCHANGED <<state, files, exc, agent, phases>>
    /\ UNCHANGED <<wpc, wdoc, lastRead, snapPrev, snapCur, stateAtCall>>
    /\ UNCHANGED monVars
    /\ UNCHANGED hostVars
    /\ UNCHANGED <<data, vault, password_files, secretsOnDisk, exitStatus,
                   conv, daemonized, stdoutLines, ticks, calls>>

\* re.IGNORECASE: a piece of a name in lower case, for the pieces with
\* capital letters in them
Lower(piece) ==
    CASE piece = "PASSWORD" -> "password"
      [] piece = "PROXY_" -> "proxy_"
      [] piece = "RHV-toolsSetup_" -> "rhv-toolssetup_"
      [] piece = "RHEV-toolsSetup_" -> "rhev-toolssetup_"
      [] OTHER -> piece

\* log_command_safe: 'password' is found in the name, whatever the case
HasPassword(name) == \E i \in 1..Len(name) : Lower(name[i]) = "password"

\* OSPHost.prepare_command: k.lower().replace('_', '-')
OptionName(name) ==
    [i \in 1..Len(name) |->
        CASE name[i] = "os_" -> "os-"
          [] name[i] = "auth_url" -> "auth-url"
          [] OTHER -> Lower(name[i])]

\* prepare_command and host.prepare_command: the arguments of the form
\* name=value made from the request; OpenStack: one -oo for every key of
\* osp_environment.  (The other arguments hold no value of the request that
\* is named after a password.)
V2vArgs(d, run) ==
    IF Detect(d) # "osp" THEN << >>
    ELSE [i \in 1..Len(run.osp_environment) |->
            Item(OptionName(run.osp_environment[i].name),
                 run.osp_environment[i].value)]

\* log_command_safe(args, env): a copy with ***** for the value of every
\* argument name=value and every variable whose name has 'password' in it,
\* logged as one line
LogCommandSafe(args, env) ==
    LET Safe(items) ==
          [i \in 1..Len(items) |->
              IF HasPassword(items[i].name) THEN Item(items[i].name, "*****")
              ELSE items[i]]
    IN [msg |-> "Executing command", items |-> Safe(args) \o Safe(env)]

\* SystemdRunner.run: '--setenv=%s=%s' % (k, v) for every variable, then
\* logging.info('systemd-run invocation: %r', unit), before the arguments
\* are added to unit
SystemdInvocation(env) == [msg |-> "systemd-run invocation", items |-> env]

\* wrapper() up to Popen: what one run writes to the wrapper log
StartLog(d, run) ==
    <<LogCommandSafe(V2vArgs(d, run), run.environ)>>
    \o (IF RunnerKind(d) = "systemd" THEN <<SystemdInvocation(run.environ)>>
        ELSE << >>)

\* Outcomes of runner.run(): started; RuntimeError (SystemdRunner: no unit
\* name in the output of systemd-run, or no PID for the unit); OSError (the
\* program or the log file cannot be opened)
RunOutcomes(kind) ==
    IF kind = "systemd" THEN {"ok", "RuntimeError", "OSError"} ELSE {"ok", "OSError"}

\* wrapper(): compose the command, create the runner, runner.run().  Only
\* RuntimeError is caught there: error(), state['failed'] = True,
\* state.write(), return.  (When the unit's PID could not be read the unit
\* itself may be running.)
W_Run ==
    /\ pc = "w_run"
    /\ \E r \in RunOutcomes(RunnerKind(data)) :
         CASE r = "ok" ->
                /\ conv' = [st |-> "running", rc |-> RcNone, killed |-> FALSE]
                /\ phases' = Append(phases, "running")
                /\ pc' = "w_pid"
                /\ UNCHANGED <<state, files, exc>>
           [] r = "RuntimeError" ->
                /\ \E launched \in BOOLEAN :
                     conv' = IF launched
                             THEN [st |-> "running", rc |-> RcNone, killed |-> FALSE]
                             ELSE conv
                /\ LET e == ErrorReport(state, files, "Failed to start virt-v2v")
                       w == Write(SetItem(e.mem, "failed", TRUE), e.files)
                   IN state' = w.mem /\ files' = w.files
                /\ pc' = "m_after_wrapper"
                /\ UNCHANGED <<exc, phases>>
           [] r = "OSError" ->
                /\ pc' = "m_inner_except"
                /\ exc' = "OSError"
                /\ UNCHANGED <<state, files, conv, phases>>
    /\ UNCHANGED <<wpc, wdoc, lastRead, snapPrev, snapCur, stateAtCall>>
    /\ UNCHANGED monVars
    /\ wrapperLog' = [r \in 1..2 |-> wrapperLog[r] \o StartLog(data, runs[r])]
    /\ UNCHANGED <<tcVars, reqVars, runs, cleanupVars, helperVars, chunkVars>>
    /\ UNCHANGED <<data, vault, password_files, secretsOnDisk, exitStatus,
                   agent, daemonized, stdoutLines, ticks, calls>>

\* PID reported by the runner
ConverterPid == 4242

\* wrapper(): state['pid'] = runner.pid; throttling_update(runner,
\* data['throttling']) when the request has the key.  Without a systemd unit
\* the update returns at once.  With one, a mapping of strings is applied
\* (or error() reports that it could not be), and a value that is not a
\* string makes re.match raise TypeError, outside of any try of wrapper().
W_Pid ==
    /\ pc = "w_pid"
    /\ LET s1 == SetItem(state, "pid", ConverterPid)
       IN IF data.throttling = "absent" \/ RunnerKind(data) # "systemd"
          THEN /\ state' = s1
               /\ pc' = "w_started"
               /\ UNCHANGED <<files, exc>>
          ELSE IF data.throttling = "malformed"
          THEN /\ state' = s1
               /\ pc' = "m_inner_except"
               /\ exc' = "TypeError"
               /\ UNCHANGED files
          ELSE \E applied \in BOOLEAN :
                 /\ IF applied
                    THEN /\ state' = [s1 EXCEPT !["throttling"].cpu = "50%"]
                         /\ UNCHANGED files
                    ELSE LET w == ErrorReport(s1, files, "Failed to set CPU limit")
                         IN state' = w.mem /\ files' = w.files
                 /\ pc' = "w_started"
                 /\ UNCHANGED exc
    /\ UNCHANGED <<wpc, wdoc, lastRead, snapPrev, snapCur, stateAtCall>>
    /\ UNCHANGED monVars
    /\ UNCHANGED hostVars
    /\ UNCHANGED <<data, vault, password_files, secretsOnDisk, exitStatus,
                   conv, agent, daemonized, stdoutLines, ticks, phases, calls>>

\* wrapper(): state['started'] = True; state.write(); with log_parser(...).
\* Opening the two logs raises when they did not appear.
W_Started ==
    /\ pc = "w_started"
    /\ LET w == Write(SetItem(state, "started", TRUE), files)
       IN state' = w.mem /\ files' = w.files
    /\ \E opened \in BOOLEAN : pc' = IF opened THEN "w_loop" ELSE "w_except"
    /\ UNCHANGED <<wpc, wdoc, lastRead, snapPrev, snapCur, stateAtCall>>
    /\ UNCHANGED monVars
    /\ UNCHANGED hostVars
    /\ UNCHANGED <<data, vault, password_files, secretsOnDisk, exc, exitStatus,
                   conv, agent, daemonized, stdoutLines, ticks, phases, calls>>

\* Lines of the text log explored while the controller monitors the converter
MonitorLines ==
    {Line("copy", 1, 1, ""), Line("nbdkit", 0, 0, PathA),
     Line("progress", 10, 42, ""), Line("disk_id", 0, 0, "11111111")}
\* Lines the converter writes while it is monitored
MaxLogLines == 3

\* Content of the throttling drop-file: text that is not JSON, a JSON array,
\* or a JSON object, of which the values under cpu and network matter:
\*   absent (no such key), null, unlimited, a string, or #50 (the number 50)
Doc(kind, cpu, network) == [kind |-> kind, cpu |-> cpu, network |-> network]
DropDocs ==
    {Doc("malformed", "absent", "absent"),
     Doc("array", "absent", "absent"),
     Doc("object", "absent", "absent"),
     Doc("object", "50", "absent"),
     Doc("object", "abc", "absent"),
     Doc("object", "#50", "absent"),
     Doc("object", "absent", "1000")}

\* re.match found nothing
NoMatch == "no match"
\* The value is not a string: re.match raises TypeError
IsNumber(v) == v = "#50"

\* throttling_update, k == 'cpu': None and 'unlimited' are 'unlimited',
\* "([+0-9]+)%?$" gives the number followed by %
CpuLimit(v) ==
    CASE v \in {"null", "unlimited"} -> "unlimited"
      [] v \in {"50", "50%"} -> "50%"
      [] OTHER -> NoMatch

\* throttling_update, k == 'network': None and 'unlimited' are 'unlimited',
\* "([+0-9]+)$" gives the number
NetworkLimit(v) ==
    CASE v \in {"null", "unlimited"} -> "unlimited"
      [] v = "1000" -> "1000"
      [] OTHER -> NoMatch

\* throttling_update, one key of the document: v its value, limit the
\* normalised value, ok what the call that applies it returns.  val is the
\* entry added to `processed`, NoMatch when there is none.
ThrottleKey(s, fs, key, v, limit, ok, parseMsg, setMsg) ==
    IF v = "absent" THEN [mem |-> s, files |-> fs, val |-> NoMatch]
    ELSE IF limit = NoMatch
    THEN LET e == ErrorReport(s, fs, parseMsg)
         IN [mem |-> e.mem, files |-> e.files, val |-> NoMatch]
    ELSE IF limit # s["throttling"][key] /\ ok
    THEN [mem |-> s, files |-> fs, val |-> limit]
    ELSE LET e == ErrorReport(s, fs, setMsg)
         IN [mem |-> e.mem, files |-> e.files, val |-> NoMatch]

\* What throttling_update leaves behind
ThrottleResult(s, fs, df, e) ==
    [state |-> s, files |-> fs, dropfile |-> df, raised |-> e]

\* throttling_update from "Throttling works only when we have (temporary)
\* systemd unit" on, for the document doc; df is the drop-file by now
ThrottlingApply(kind, s, fs, df, doc, cpuOk, netOk) ==
    IF kind # "systemd" THEN ThrottleResult(s, fs, df, "none")
    ELSE IF doc.kind # "object" THEN ThrottleResult(s, fs, df, "AttributeError")
    ELSE IF IsNumber(doc.cpu) THEN ThrottleResult(s, fs, df, "TypeError")
    ELSE LET c == ThrottleKey(s, fs, "cpu", doc.cpu, CpuLimit(doc.cpu), cpuOk,
                              "Failed to parse value for CPU limit",
                              "Failed to set CPU limit")
         IN IF IsNumber(doc.network)
            THEN ThrottleResult(c.mem, c.files, df, "TypeError")
            ELSE LET n == ThrottleKey(c.mem, c.files, "network", doc.network,
                                      NetworkLimit(doc.network), netOk,
                                      "Failed to parse value for network limit",
                                      "Failed to set network limit")
                     t1 == IF c.val = NoMatch THEN n.mem["throttling"]
                           ELSE [n.mem["throttling"] EXCEPT !.cpu = c.val]
                     t2 == IF n.val = NoMatch THEN t1
                           ELSE [t1 EXCEPT !.network = n.val]
                 IN ThrottleResult([n.mem EXCEPT !["throttling"] = t2],
                                   n.files, df, "none")

\* TcController.set_limit: None and 'unlimited' are MAX_RATE
TcRate(limit) == IF limit \in {None, "unlimited"} THEN MAX_RATE ELSE limit

\* TcController.set_limit(limit): `tc class change` on every interface;
\* changed[i] tells whether the command succeeded on interface i.  The rate
\* of an interface changes where the command succeeded, and the result is
\* True only when it succeeded everywhere.
SetLimit(rates, limit, changed) ==
    [rates |-> [i \in Interfaces |->
                  IF changed[i] THEN TcRate(limit) ELSE rates[i]],
     ret |-> \A i \in Interfaces : changed[i]]

\* throttling_update: the value runner.set_network_limit is called with,
\* NoMatch when the call is not reached (no document, no systemd unit, an
\* exception before the key, no value, a value that does not parse, or
\* val == state['throttling']['network'])
NetworkRequest(kind, s, df) ==
    IF \/ ~df.exists
       \/ ~df.readable
       \/ kind # "systemd"
       \/ df.content.kind # "object"
       \/ IsNumber(df.content.cpu)
       \/ IsNumber(df.content.network)
       \/ df.content.network = "absent"
    THEN NoMatch
    ELSE IF NetworkLimit(df.content.network) = s["throttling"].network
    THEN NoMatch
    ELSE NetworkLimit(df.content.network)

\* throttling_update: os.remove(state['internal']['throttling_file'])
RemoveDropFile(df) == NoDrop

\* throttling_update(runner) of the monitor loop: read the drop-file (no
\* file: return; unreadable or not JSON: error(), return), remove it, apply
ThrottlingUpdate(kind, s, fs, df, cpuOk, netOk) ==
    IF ~df.exists THEN ThrottleResult(s, fs, df, "none")
    ELSE IF ~df.readable \/ df.content.kind = "malformed"
    THEN LET e == ErrorReport(s, fs, "Failed to read throttling file")
         IN ThrottleResult(e.mem, e.files, df, "none")
    ELSE ThrottlingApply(kind, s, fs, RemoveDropFile(df), df.content, cpuOk, netOk)

\* parse() of the monitor loop on the lines not read yet: what parse_line
\* left behind, and the lines after the one that raised
RECURSIVE ParseLog(_, _, _, _)
ParseLog(s, cd, cp, lines) ==
    IF lines = << >> THEN [r |-> ParseResult(s, cd, cp, "none"), rest |-> << >>]
    ELSE LET r == ParseLine(s, cd, cp, Head(lines))
         IN IF r.raised # "none" THEN [r |-> r, rest |-> Tail(lines)]
            ELSE ParseLog(r.state, r.current_disk, r.current_path, Tail(lines))

\* wrapper(): one round of the loop while runner.is_running(): parse, write,
\* update_progress, throttling_update, sleep.  Reading the logs can raise
\* before a line is looked at, parse_line can raise on a line, and
\* update_progress (a request to the cluster, in a pod) can raise after the
\* write.  A round that raises nothing ends in the sleep.
W_Tick ==
    /\ pc = "w_loop"
    /\ conv.st = "running"
    /\ ticks < MaxTicks
    /\ \E r \in {"ok", "parse_raises", "update_raises"}, cpuOk \in BOOLEAN,
          changed \in [Interfaces -> BOOLEAN] :
         LET p == ParseLog(state, current_disk, current_path, log)
             w == Write(p.r.state, files)
             q == NetworkRequest(RunnerKind(data), w.mem, dropfile)
             n == IF q = NoMatch THEN [rates |-> ifaceRate, ret |-> FALSE]
                  ELSE SetLimit(ifaceRate, q, changed)
             t == ThrottlingUpdate(RunnerKind(data), w.mem, w.files, dropfile,
                                   cpuOk, n.ret)
         IN IF r = "parse_raises"
            THEN /\ pc' = "w_except"
                 /\ UNCHANGED <<state, files, current_disk, current_path, log,
                                dropfile, linesParsed, ifaceRate>>
            ELSE /\ current_disk' = p.r.current_disk
                 /\ current_path' = p.r.current_path
                 /\ log' = p.rest
                 /\ linesParsed' = linesParsed + (Len(log) - Len(p.rest))
                 /\ IF p.r.raised # "none"
                    THEN /\ state' = p.r.state
                         /\ pc' = "w_except"
                         /\ UNCHANGED <<files, dropfile, ifaceRate>>
                    ELSE IF r = "update_raises"
                    THEN /\ state' = w.mem
                         /\ files' = w.files
                         /\ pc' = "w_except"
                         /\ UNCHANGED <<dropfile, ifaceRate>>
                    ELSE /\ state' = t.state
                         /\ files' = t.files
                         /\ dropfile' = t.dropfile
                         /\ ifaceRate' = n.rates
                         /\ pc' = IF t.raised = "none" THEN "w_loop" ELSE "w_except"
    /\ ticks' = ticks + 1
    /\ UNCHANGED <<wpc, wdoc, lastRead, snapPrev, snapCur, stateAtCall>>
    /\ UNCHANGED <<reqVars, logVars, cleanupVars, helperVars, chunkVars>>
    /\ UNCHANGED <<data, vault, password_files, secretsOnDisk, exc, exitStatus,
                   conv, agent, daemonized, stdoutLines, phases, calls>>
    /\ UNCHANGED <<lastLine, announced>>

\* wrapper(): is_running() is false: log the return code, parse what is left
W_LoopExit ==
    /\ pc = "w_loop"
    /\ conv.st = "exited"
    /\ \E parsed \in BOOLEAN :
         LET p == ParseLog(state, current_disk, current_path, log)
         IN IF ~parsed
            THEN /\ pc' = "w_except"
                 /\ UNCHANGED <<state, current_disk, current_path, log, linesParsed>>
            ELSE /\ state' = p.r.state
                 /\ current_disk' = p.r.current_disk
                 /\ current_path' = p.r.current_path
                 /\ log' = p.rest
                 /\ linesParsed' = linesParsed + (Len(log) - Len(p.rest))
                 /\ pc' = IF p.r.raised = "none" THEN "w_rc" ELSE "w_except"
    /\ UNCHANGED <<files, wpc, wdoc, lastRead, snapPrev, snapCur, stateAtCall>>
    /\ UNCHANGED <<data, vault, password_files, secretsOnDisk, exc, exitStatus,
                   conv, agent, daemonized, stdoutLines, ticks, phases, calls>>
    /\ UNCHANGED <<dropfile, lastLine, announced>>
    /\ UNCHANGED hostVars

\* wrapper(): except Exception: state['failed'] = True; error(...);
\* runner.kill()
W_Except ==
    /\ pc = "w_except"
    /\ LET w == ErrorReport(SetItem(state, "failed", TRUE), files,
                            "Error while monitoring virt-v2v")
       IN state' = w.mem /\ files' = w.files
    /\ conv' = KillRunner(conv)
    /\ pc' = "w_rc"
    /\ UNCHANGED <<wpc, wdoc, lastRead, snapPrev, snapCur, stateAtCall>>
    /\ UNCHANGED monVars
    /\ UNCHANGED hostVars
    /\ UNCHANGED <<data, vault, password_files, secretsOnDisk, exc, exitStatus,
                   agent, daemonized, stdoutLines, ticks, phases, calls>>

\* runner.return_code: None while the converter is running
ReturnCode(c) == IF c.st = "exited" THEN c.rc ELSE RcNone

\* wrapper(): state['return_code'] = runner.return_code; state.write();
\* if state['return_code'] != 0: state['failed'] = True; state.write()
W_ReturnCode ==
    /\ pc = "w_rc"
    /\ LET s1 == SetItem(state, "return_code", ReturnCode(conv))
           s2 == IF ConverterFailed(s1["return_code"])
                 THEN SetItem(s1, "failed", TRUE) ELSE s1
           w == Write(s2, Write(s1, files).files)
       IN state' = w.mem /\ files' = w.files
    /\ pc' = "m_after_wrapper"
    /\ UNCHANGED <<wpc, wdoc, lastRead, snapPrev, snapCur, stateAtCall>>
    /\ UNCHANGED monVars
    /\ UNCHANGED hostVars
    /\ UNCHANGED <<data, vault, password_files, secretsOnDisk, exc, exitStatus,
                   conv, agent, daemonized, stdoutLines, ticks, phases, calls>>

\* The converter ends, by itself or by a signal
ConverterExits ==
    /\ pc \notin ExitedPcs
    /\ conv.st = "running"
    /\ \E rc \in ConverterExitCodes :
         conv' = [conv EXCEPT !.st = "exited", !.rc = rc]
    /\ UNCHANGED storeVars
    /\ UNCHANGED monVars
    /\ UNCHANGED hostVars
    /\ UNCHANGED <<pc, data, vault, password_files, secretsOnDisk, exc, exitStatus,
                   agent, daemonized, stdoutLines, ticks, phases, calls>>

\* main(): if agent_pid is not None: os.kill(agent_pid, signal.SIGTERM)
M_AfterWrapper ==
    /\ pc = "m_after_wrapper"
    /\ agent' = IF agent = "running" THEN "killed" ELSE agent
    /\ pc' = "m_finish"
    /\ UNCHANGED storeVars
    /\ UNCHANGED monVars
    /\ UNCHANGED hostVars
    /\ UNCHANGED <<data, vault, password_files, secretsOnDisk, exc, exitStatus,
                   conv, daemonized, stdoutLines, ticks, phases, calls>>

\* main(): if not state.get('failed', False):
\*             state['failed'] = not host.handle_finish(data, state)
\* A handle_finish that returns False has reported why through error().
M_Finish ==
    /\ pc = "m_finish"
    /\ IF ShouldFinish(state)
       THEN \E r \in FinishOutcomes(Detect(data)) :
              /\ calls' = Append(calls, "finish")
              /\ CASE r = "true" ->
                        /\ state' = SetItem(state, "failed", FALSE)
                        /\ pc' = "m_finally"
                        /\ UNCHANGED <<files, exc>>
                   [] r = "false" ->
                        /\ LET w == ErrorReport(state, files, "Create VM failed")
                           IN /\ state' = SetItem(w.mem, "failed", TRUE)
                              /\ files' = w.files
                        /\ pc' = "m_finally"
                        /\ UNCHANGED exc
                   [] r = "raise" ->
                        /\ pc' = "m_inner_except"
                        /\ exc' = "handle_finish failed"
                        /\ UNCHANGED <<state, files>>
       ELSE /\ pc' = "m_finally"
            /\ UNCHANGED <<state, files, exc, calls>>
    /\ UNCHANGED <<wpc, wdoc, lastRead, snapPrev, snapCur, stateAtCall>>
    /\ UNCHANGED monVars
    /\ UNCHANGED hostVars
    /\ UNCHANGED <<data, vault, password_files, secretsOnDisk, exitStatus,
                   conv, agent, daemonized, stdoutLines, ticks, phases>>

\* main(): except Exception as e: error(e.args[0], ...);
\* state['failed'] = True; state.write(); raise
M_InnerExcept ==
    /\ pc = "m_inner_except"
    /\ LET e == ErrorReport(state, files, exc)
           w == Write(SetItem(e.mem, "failed", TRUE), e.files)
       IN state' = w.mem /\ files' = w.files
    /\ pc' = "m_finally"
    /\ UNCHANGED <<wpc, wdoc, lastRead, snapPrev, snapCur, stateAtCall>>
    /\ UNCHANGED monVars
    /\ UNCHANGED hostVars
    /\ UNCHANGED <<data, vault, password_files, secretsOnDisk, exc, exitStatus,
                   conv, agent, daemonized, stdoutLines, ticks, phases, calls>>

\* main(): finally: if state.get('failed', False): try: handle_cleanup()
\* finally: state['finished'] = True; state.write().  An exception of
\* handle_cleanup goes on after the inner finally; so does the one that
\* came through the except clause.
M_Finally ==
    /\ pc = "m_finally"
    /\ IF ShouldCleanup(state)
       THEN \E r \in CleanupOutcomes(Detect(data)) :
              /\ calls' = Append(calls, "cleanup")
              /\ LET w == Write(MarkFinishedAfterCleanup(state, r = "raise"), files)
                 IN state' = w.mem /\ files' = w.files
              /\ exc' = IF r = "raise" THEN "handle_cleanup failed" ELSE exc
       ELSE UNCHANGED <<state, files, exc, calls>>
    /\ pc' = IF exc' # "none" THEN "m_outer_except" ELSE "m_remove"
    /\ UNCHANGED <<wpc, wdoc, lastRead, snapPrev, snapCur, stateAtCall>>
    /\ UNCHANGED monVars
    /\ UNCHANGED hostVars
    /\ UNCHANGED <<data, vault, password_files, secretsOnDisk, exitStatus,
                   conv, agent, daemonized, stdoutLines, ticks, phases>>

\* main(): "Remove password files"; state['finished'] = True; state.write()
M_Remove ==
    /\ pc = "m_remove"
    /\ secretsOnDisk' = RemovePasswordFiles(secretsOnDisk, password_files)
    /\ LET w == Write(SetItem(state, "finished", TRUE), files)
       IN state' = w.mem /\ files' = w.files
    /\ pc' = "m_done"
    /\ UNCHANGED <<wpc, wdoc, lastRead, snapPrev, snapCur, stateAtCall>>
    /\ UNCHANGED monVars
    /\ UNCHANGED hostVars
    /\ UNCHANGED <<data, vault, password_files, exc, exitStatus,
                   conv, agent, daemonized, stdoutLines, ticks, phases, calls>>

\* main(): logging.info('Finished'); if state['failed']: sys.exit(2)
M_Done ==
    /\ pc = "m_done"
    /\ exitStatus' = ExitCode(state["failed"])
    /\ pc' = "exit_normal"
    /\ UNCHANGED storeVars
    /\ UNCHANGED monVars
    /\ UNCHANGED hostVars
    /\ UNCHANGED <<data, vault, password_files, secretsOnDisk, exc,
                   conv, agent, daemonized, stdoutLines, ticks, phases, calls>>

\* main(): except Exception: log, remove the password files, raise
M_OuterExcept ==
    /\ pc = "m_outer_except"
    /\ secretsOnDisk' = RemovePasswordFiles(secretsOnDisk, password_files)
    /\ pc' = "exit_uncaught"
    /\ exitStatus' = UncaughtStatus
    /\ UNCHANGED storeVars
    /\ UNCHANGED monVars
    /\ UNCHANGED hostVars
    /\ UNCHANGED <<data, vault, password_files, exc,
                   conv, agent, daemonized, stdoutLines, ticks, phases, calls>>

Next ==
    \/ M_Start
    \/ M_Caps
    \/ M_Validate
    \/ M_Secrets
    \/ M_Luks
    \/ M_StateCreate
    \/ M_Advert
    \/ M_Daemonize
    \/ M_Agent
    \/ W_Run
    \/ W_Pid
    \/ W_Started
    \/ W_Tick
    \/ W_LoopExit
    \/ W_Except
    \/ W_ReturnCode
    \/ ConverterExits
    \/ M_AfterWrapper
    \/ M_Finish
    \/ M_InnerExcept
    \/ M_Finally
    \/ M_Remove
    \/ M_Done
    \/ M_OuterExcept

Spec == Init /\ [][Next]_vars

----------------------------------------------------------------------------
(* Claims about the run controller                                          *)

Exited == pc \in ExitedPcs
StateCreated == "state_created" \in Range(phases)
Persisted == files[StatePath]
PersistedFinished ==
    Complete(Persisted) /\ Get(Persisted.doc, "finished", FALSE)

\* C3: every run that created its state file has, when its process is gone,
\* a persisted snapshot with finished = true, whatever ended it.
C3_FinishedPersisted == (Exited /\ StateCreated) => PersistedFinished

\* C3 witness: the run ended by an exception of handle_cleanup, and the
\* state file says finished
C3_Witness ==
    /\ pc = "exit_uncaught"
    /\ exc = "handle_cleanup failed"
    /\ StateCreated
    /\ PersistedFinished

\* C4 as claimed: when the process that finishes the run is gone, no secret
\* file written by write_password is left on disk.
C4_SecretsDeleted == Exited => secretsOnDisk = {}

\* C5 as claimed: a run that ends with failed = true exits with status 2,
\* one that ends with failed = false after its state file was created exits
\* with 0, and status 1 comes only from a failure before the state file.
C5_ExitStatusAsClaimed ==
    Exited =>
      /\ state["failed"] => exitStatus = 2
      /\ (StateCreated /\ ~state["failed"]) => exitStatus = 0
      /\ exitStatus = 1 => ~StateCreated

\* C5 amended: a run that reaches the end of main() exits with 2 when
\* failed is true and with 0 when it is false; a run that an exception
\* leaves main() with, or that hard_error ends, exits with 1, and after the
\* state file was created such a run has failed = true.
C5_ExitStatus ==
    Exited =>
      /\ pc = "exit_normal" =>
            /\ StateCreated
            /\ exitStatus = (IF state["failed"] THEN 2 ELSE 0)
      /\ pc = "exit_uncaught" =>
            /\ exitStatus = 1
            /\ StateCreated => state["failed"]
      /\ pc = "exit_hard_error" => exitStatus = 1 /\ ~StateCreated
      /\ exitStatus \in {0, 1, 2}

\* C5 witness: the converter exited with 1 and the run ended with status 2
C5_Witness ==
    /\ pc = "exit_normal"
    /\ state["failed"]
    /\ conv.st = "exited" /\ conv.rc = 1
    /\ exitStatus = 2

\* C6 as claimed: an exception of handle_cleanup never leaves main(): the
\* run goes on to the normal end.
C6_CleanupNotReraised ==
    exc = "handle_cleanup failed" => pc \notin {"m_outer_except", "exit_uncaught"}

\* C6 amended: an exception of handle_cleanup leaves main() (exit status 1),
\* but only after finished = true was persisted, and not before the secret
\* files were deleted.
C6_CleanupReraisedAfterFinished ==
    exc = "handle_cleanup failed" =>
      /\ pc \in {"m_outer_except", "exit_uncaught"}
      /\ PersistedFinished
      /\ Persisted.doc["failed"]
      /\ Exited => (exitStatus = 1 /\ secretsOnDisk = {})

\* C6 witness: a run with secret files ended by an exception of the cleanup
C6_Witness ==
    /\ pc = "exit_uncaught"
    /\ exc = "handle_cleanup failed"
    /\ password_files # << >>
    /\ secretsOnDisk = {}

C8_FinishAndCleanup ==
    [][/\ ("finish" \in Range(calls') /\ "finish" \notin Range(calls)) =>
             /\ Get(state, "started", FALSE)
             /\ conv.st = "exited" /\ conv.rc = 0
             /\ state["return_code"] = 0
             /\ ~state["failed"]
       /\ pc' \in ExitedPcs => (("cleanup" \in Range(calls')) <=> state'["failed"])
       /\ ("return_code" \in DOMAIN state' /\ state'["return_code"] # 0) => state'["failed"]
       /\ (conv'.st = "exited" /\ conv'.rc # 0 /\ pc' \in ExitedPcs /\ StateCreated') =>
             state'["failed"]]_vars

\* C8 witness: handle_finish returned False, so handle_cleanup was called
C8_Witness ==
    /\ pc = "exit_normal"
    /\ calls = <<"finish", "cleanup">>
    /\ state["failed"]

\* The order of the phases of a run on request d
PhaseOrder(d) ==
    <<"validated", "secrets_written", "state_created", "advertised",
      IF d.daemonize THEN "daemonized" ELSE "foreground">>
    \o (IF d.transport_method = "ssh" THEN <<"ssh_agent_ready">> ELSE << >>)

IsPrefix(a, b) == Len(a) <= Len(b) /\ a = SubSeq(b, 1, Len(a))

\* C9: the phases of a run are entered in the order validation, secret
\* files, state file, stdout advertisement, daemonization (or foreground),
\* SSH agent (ssh transport only), converter; when the converter is started
\* all of them are complete: the state file exists, exactly one JSON
\* document was printed, the process is daemonized if asked to, and the
\* agent runs if the transport is ssh.
C9_PhaseOrder ==
    [][/\ IsPrefix(phases', PhaseOrder(data') \o <<"running">>)
       /\ (conv.st = "none" /\ conv'.st # "none") =>
             /\ phases = PhaseOrder(data)
             /\ Complete(Persisted)
             /\ stdoutLines = 1
             /\ daemonized = data.daemonize
             /\ data.transport_method = "ssh" => agent = "running"]_vars

\* C9 witness: a daemonized ssh run with its converter running
C9_Witness ==
    /\ conv.st = "running"
    /\ data.transport_method = "ssh" /\ data.daemonize
    /\ phases = PhaseOrder(data) \o <<"running">>
    /\ agent = "running"

\* C10 as claimed: a validation failure (hard_error) ends the run with
\* status 1 before any secret file was written, before the state file
\* exists and before daemonization.
C10_ValidationBeforeSideEffects ==
    pc = "exit_hard_error" =>
      /\ exitStatus = 1
      /\ password_files = << >>
      /\ secretsOnDisk = {}
      /\ ~Persisted.exists
      /\ ~daemonized

\* C11 as claimed: when the process that finishes the run is gone, an SSH
\* agent that was spawned for the run has been sent its termination signal,
\* whatever ended the run.
C11_AgentKilled == Exited => agent # "running"

----------------------------------------------------------------------------
(* The parser on its own: a disks list seeded from source_disks, and the    *)
(* lines of a text log handed to parse_line one after the other             *)

\* Values of source_disks: lists of distinct disk paths
SourceDiskLists ==
    {ds \in UNION {[1..n -> DiskPaths] : n \in 0..MaxSeed} :
        \A i, j \in DOMAIN ds : i # j => ds[i] # ds[j]}

\* main() has seeded state['disks'] from the request and wrapper() has
\* constructed the parser; nothing else of the controller is looked at
InitParser ==
    /\ \E ds \in SourceDiskLists :
         /\ data = [NoData EXCEPT !.source_disks = ds]
         /\ state = SeedDisks(InitialState, [NoData EXCEPT !.source_disks = ds])
    /\ files = [p \in Paths |-> Absent]
    /\ StoreQuiet
    /\ pc = "off"
    /\ vault = "absent"
    /\ password_files = << >>
    /\ secretsOnDisk = {}
    /\ exc = "none"
    /\ exitStatus = -1
    /\ conv = NoConv
    /\ agent = "none"
    /\ daemonized = FALSE
    /\ stdoutLines = 0
    /\ ticks = 0
    /\ phases = << >>
    /\ calls = << >>
    /\ MonQuiet
    /\ HostQuiet
    /\ options = NoOptions
    /\ wrapperLog = [r \in 1..2 |-> << >>]

\* state = self.parse_line(state, line), for the next line of the log; an
\* exception of parse_line leaves parse() and ends the parsing
P_ParseLine ==
    /\ pc = "off"
    /\ exc = "none"
    /\ linesParsed < MaxLines
    /\ \E line \in Lines :
         LET r == ParseLine(state, current_disk, current_path, line)
         IN /\ state' = r.state
            /\ current_disk' = r.current_disk
            /\ current_path' = r.current_path
            /\ exc' = r.raised
            /\ lastLine' = line
            /\ announced' =
                 IF /\ line.kind \in PathKinds
                    /\ current_disk # NoneDisk
                    /\ announced[current_disk] = None
                 THEN [announced EXCEPT ![current_disk] = r.current_path]
                 ELSE announced
    /\ linesParsed' = linesParsed + 1
    /\ UNCHANGED <<files, wpc, wdoc, lastRead, snapPrev, snapCur, stateAtCall>>
    /\ UNCHANGED <<pc, data, vault, password_files, secretsOnDisk, exitStatus,
                   conv, agent, daemonized, stdoutLines, ticks, phases, calls>>
    /\ UNCHANGED <<log, dropfile>>
    /\ UNCHANGED hostVars

NextParser == P_ParseLine

SpecParser == InitParser /\ [][NextParser]_vars

----------------------------------------------------------------------------
(* Claims about the parser                                                  *)

\* parse_line has just been called on a line of one of these kinds
Parsed(kinds) == linesParsed' # linesParsed /\ lastLine'.kind \in kinds

\* A list without the entry at position k (positions from 1)
Without(seq, k) ==
    [n \in 1..(Len(seq) - 1) |-> IF n < k THEN seq[n] ELSE seq[n + 1]]

\* C12 as claimed: over any parse step, the progress of the entry at every
\* index of the disks list that exists before and after the step does not
\* decrease.
C12_ProgressNonDecreasing ==
    [][\A i \in 1..Len(state["disks"]) :
          i <= Len(state'["disks"]) =>
             state'["disks"][i].progress >= state["disks"][i].progress]_vars

\* C13 as claimed: once a path P was reported for disk index i (a path line
\* while `Copying disk i+1` was the current announcement), the entry at
\* index i exists and has path P in every later state.
C13_AnnouncedPathStays ==
    \A i \in DOMAIN announced :
       announced[i] # None =>
          /\ i < Len(state["disks"])
          /\ state["disks"][i + 1].path = announced[i]

\* C14 as claimed: after _locate_disk ran with current_disk = c and
\* current_path = P, the entry at index c exists and its path is P.
C14_LocatePostcondition ==
    [][(Parsed(PathKinds) /\ current_disk # NoneDisk) =>
          /\ current_disk < Len(state'["disks"])
          /\ state'["disks"][current_disk + 1].path = current_path']_vars

\* C15: _locate_disk leaves the entries before current_disk as they are;
\* a path found at current_disk changes nothing; a path found at a later
\* index moves that entry to current_disk and keeps the length and the
\* relative order of all the other entries; a path not found from
\* current_disk on adds exactly one entry {path, progress 0} and alters
\* nothing else; no other key of the snapshot changes.
C15_LocateFrame ==
    [][(Parsed(PathKinds) /\ current_disk # NoneDisk) =>
          LET old == state["disks"]
              new == state'["disks"]
              c == current_disk
              p == current_path'
              found == {j \in c..(Len(old) - 1) : old[j + 1].path = p}
          IN /\ \A j \in 0..(c - 1) :
                   j < Len(old) => (j < Len(new) /\ new[j + 1] = old[j + 1])
             /\ c \in found => new = old
             /\ (found # {} /\ c \notin found) =>
                   LET j == CHOOSE j \in found : \A k \in found : j <= k
                   IN /\ Len(new) = Len(old)
                      /\ new[c + 1] = old[j + 1]
                      /\ Without(new, c + 1) = Without(old, j + 1)
             /\ found = {} =>
                   /\ Len(new) = Len(old) + 1
                   /\ \E q \in 1..Len(new) :
                         /\ new[q] = [path |-> p, progress |-> 0]
                         /\ Without(new, q) = old
             /\ Strip(state', "disks") = Strip(state, "disks")]_vars

\* C15 witness: the list seeded as b, c, a after `Copying disk 1` and the
\* path line of a: a was moved from the end to the front, b and c follow
C15_Witness ==
    /\ data.source_disks = <<PathB, PathC, PathA>>
    /\ linesParsed = 2
    /\ lastLine.kind \in PathKinds
    /\ current_disk = 0
    /\ current_path = PathA
    /\ Len(state["disks"]) = 3
    /\ state["disks"][1].path = PathA
    /\ state["disks"][2].path = PathB
    /\ state["disks"][3].path = PathC

\* C16: after a line `Copying disk K/M to ...` was processed, current_disk
\* is K-1, current_path is None, disk_count is M and the disks list is what
\* it was, also when M is not its length; the line raises nothing.
C16_DiskAnnouncement ==
    [][Parsed({"copy"}) =>
          /\ exc' = "none"
          /\ current_disk' = lastLine'.n1 - 1
          /\ current_path' = None
          /\ state'["disk_count"] = lastLine'.n2
          /\ state'["disks"] = state["disks"]]_vars

\* C16 witness: `Copying disk 2/2` processed after a path had been learnt
\* for the first disk, with three disks in the list
C16_Witness ==
    /\ lastLine.kind = "copy"
    /\ lastLine.n1 = 2 /\ lastLine.n2 = 2
    /\ announced[0] # None
    /\ current_disk = 1
    /\ current_path = None
    /\ state["disk_count"] = 2
    /\ Len(state["disks"]) = 3

\* C17 as claimed: a progress line processed while current_path and
\* current_disk are both known sets the progress of the entry at
\* current_disk to its reading and changes nothing else; processed while
\* one of them is unknown it leaves the snapshot as it was.
C17_ProgressGating ==
    [][Parsed({"progress"}) =>
          IF current_path # None /\ current_disk # NoneDisk
          THEN /\ exc' = "none"
               /\ current_disk < Len(state["disks"])
               /\ state' = [state EXCEPT !["disks"][current_disk + 1].progress =
                                            Float(lastLine'.n1, lastLine'.n2)]
          ELSE state' = state]_vars

\* C18 as claimed: a line `disk.id = '<uuid>'` processed while current_disk
\* is set records the uuid under the path of the entry at current_disk,
\* changes no other entry of disk_ids and leaves the disks list as it was.
C18_DiskUuidHarvest ==
    [][(Parsed({"disk_id"}) /\ current_disk # NoneDisk) =>
          /\ exc' = "none"
          /\ current_disk < Len(state["disks"])
          /\ LET p == state["disks"][current_disk + 1].path
                 old == state["internal"].disk_ids
                 new == state'["internal"].disk_ids
             IN /\ DOMAIN new = DOMAIN old \cup {p}
                /\ new[p] = lastLine'.s
                /\ \A q \in DOMAIN old : q # p => new[q] = old[q]
          /\ state'["disks"] = state["disks"]]_vars

----------------------------------------------------------------------------
(* The monitor loop with its surroundings: the converter writing its log,   *)
(* and whoever drops throttling requests                                    *)

\* Requests the monitor loop is explored on: valid ones, for each host and
\* runner, with and without source_disks
MonitorRequests ==
    {d \in Requests :
        /\ d.vm_name
        /\ d.transport_method = "vddk"
        /\ d.secrets = {"vmware_password"}
        /\ d.throttling = "absent"
        /\ d.targets \in {{"rhv_url"}, {}}
        /\ Detect(d) # "unknown"}

\* wrapper() has started the converter and recorded its pid; main() got
\* there through validation, secrets, state file, advertisement and
\* daemonization
InitMonitor ==
    /\ \E d \in MonitorRequests :
         LET s0 == [InitialState EXCEPT !["internal"].throttling_file = "throttle"]
             w == Write(SeedDisks(s0, d), [p \in Paths |-> Absent])
         IN /\ data = d
            /\ state = SetItem(w.mem, "pid", ConverterPid)
            /\ files = w.files
            /\ password_files = SecretFilesFor(d)
            /\ secretsOnDisk = Range(SecretFilesFor(d))
            /\ daemonized = d.daemonize
            /\ phases = PhaseOrder(d) \o <<"running">>
    /\ StoreQuiet
    /\ pc = "w_started"
    /\ vault = "absent"
    /\ exc = "none"
    /\ exitStatus = -1
    /\ conv = [st |-> "running", rc |-> RcNone, killed |-> FALSE]
    /\ agent = "none"
    /\ stdoutLines = 1
    /\ ticks = 0
    /\ calls = << >>
    /\ MonQuiet
    /\ HostQuiet
    /\ options = ValidatedOptions(Detect(data), NoOptions, domainType)
    /\ wrapperLog = [r \in 1..2 |-> StartLog(data, runs[r])]

\* The drop-file as somebody may leave it: any of the documents, or a file
\* the wrapper is not allowed to open
DropFiles ==
    {[exists |-> TRUE, readable |-> TRUE, content |-> doc] : doc \in DropDocs}
    \cup {[exists |-> TRUE, readable |-> FALSE,
           content |-> Doc("object", "absent", "absent")]}

\* The converter appends a line to its text log, between two rounds
ConverterLogs ==
    /\ pc = "w_loop"
    /\ conv.st = "running"
    /\ linesParsed + Len(log) < MaxLogLines
    /\ \E line \in MonitorLines : log' = Append(log, line)
    /\ UNCHANGED storeVars
    /\ UNCHANGED ctlVars
    /\ UNCHANGED <<current_disk, current_path, dropfile, lastLine, announced,
                   linesParsed>>
    /\ UNCHANGED hostVars

\* Somebody writes the throttling drop-file, between two rounds
DropFileWritten ==
    /\ pc = "w_loop"
    /\ conv.st = "running"
    /\ ~dropfile.exists
    /\ dropfile' \in DropFiles
    /\ UNCHANGED storeVars
    /\ UNCHANGED ctlVars
    /\ UNCHANGED <<current_disk, current_path, log, lastLine, announced,
                   linesParsed>>
    /\ UNCHANGED hostVars

NextMonitor ==
    \/ W_Started
    \/ W_Tick
    \/ W_LoopExit
    \/ W_Except
    \/ W_ReturnCode
    \/ ConverterExits
    \/ ConverterLogs
    \/ DropFileWritten

SpecMonitor == InitMonitor /\ [][NextMonitor]_vars

----------------------------------------------------------------------------
(* Claims about the monitor loop                                            *)

\* The loop is in its time.sleep(5)
Sleeping == pc = "w_loop" /\ ticks > 0

\* C19 as claimed: whenever the monitor loop sleeps, the persisted document
\* is the in-memory snapshot without `internal`.
C19_PersistBeforeSleep ==
    Sleeping => (Complete(Persisted) /\ Persisted.doc = Strip(state, "internal"))

\* C20 as claimed: a round of the loop that starts with a drop-file that
\* exists and can be opened, and gets to its sleep, ends with no drop-file.
C20_DropFileConsumed ==
    [][(pc = "w_loop" /\ ticks' = ticks + 1 /\ pc' = "w_loop"
        /\ dropfile.exists /\ dropfile.readable) => ~dropfile'.exists]_vars

----------------------------------------------------------------------------
(* Claims about the limits in force                                         *)

\* C21 as claimed: at every time state.throttling.network is the rate most
\* recently applied on every managed interface, None and 'unlimited' standing
\* for the 32-bit ceiling; also after a set_limit whose class change
\* succeeded on some interfaces and failed on others.
C21_ThrottlingInForce ==
    \A i \in Interfaces : ifaceRate[i] = TcRate(state["throttling"].network)

----------------------------------------------------------------------------
(* Validation of the request on its own: every combination of output        *)
(* options, on either kind of storage domain                                *)

InitValidate ==
    /\ state = InitialState
    /\ files = [p \in Paths |-> Absent]
    /\ StoreQuiet
    /\ pc = "m_start"
    /\ data = NoData
    /\ vault = "absent"
    /\ password_files = << >>
    /\ secretsOnDisk = {}
    /\ exc = "none"
    /\ exitStatus = -1
    /\ conv = NoConv
    /\ agent = "none"
    /\ daemonized = FALSE
    /\ stdoutLines = 0
    /\ ticks = 0
    /\ phases = << >>
    /\ calls = << >>
    /\ MonQuiet
    /\ ifaceRate = [i \in Interfaces |-> MAX_RATE]
    /\ options \in Options
    /\ domainType \in {"nfs", "iscsi"}
    /\ runs = [r \in 1..2 |-> PlainRun]
    /\ wrapperLog = [r \in 1..2 |-> << >>]
    /\ CleanupOff
    /\ HelpersOff
    /\ ChunksOff

NextValidate ==
    \/ M_Start
    \/ M_Caps
    \/ M_Validate
    \/ M_Secrets

SpecValidate == InitValidate /\ [][NextValidate]_vars

\* main() has written the password files
SecretsWritten == "secrets_written" \in Range(phases)

\* C22 as claimed: a request with more than one of export_domain, rhv_url
\* and osp_environment, or with none of them while daemonize is true, never
\* reaches SECRETS_WRITTEN.
C22_OneTargetSelector ==
    SecretsWritten =>
        /\ Cardinality(data.targets) <= 1
        /\ ~(data.targets = {} /\ data.daemonize)

\* C23 as claimed: when an RHV request (upload endpoint or export domain) has
\* passed validation, transport_method is vddk or ssh, output_format is raw
\* or qcow2 and allocation is sparse or preallocated, supplied or defaulted;
\* a request with any other value never reaches SECRETS_WRITTEN.
C23_RhvOptionsValid ==
    (SecretsWritten /\ Detect(data) = "vdsm") =>
        /\ data.transport_method \in {"vddk", "ssh"}
        /\ options.output_format \in {"raw", "qcow2"}
        /\ options.allocation \in {"sparse", "preallocated"}

----------------------------------------------------------------------------
(* The start of the converter, run twice on requests and environments that  *)
(* differ in nothing but the values named after a password                  *)

\* What a run is given: the environment, with or without a variable named
\* after a password, and the OpenStack options of the request
RunInputs ==
    [environ : {<<Item(LANG, "C")>>}
               \cup {<<Item(LANG, "C"), Item(PROXY_PASSWORD, v)>> : v \in {"s1", "s2"}},
     osp_environment : {<<Item(os_auth_url, u), Item(os_password, v)>> :
                          u \in {"http://osp", "http://other"}, v \in {"s1", "s2"}}]

\* Two lists of name and value with the same names, and the same values
\* but for the names with 'password' in them
SameButSecrets(a, b) ==
    /\ Len(a) = Len(b)
    /\ \A i \in 1..Len(a) :
          /\ a[i].name = b[i].name
          /\ HasPassword(a[i].name) \/ a[i].value = b[i].value

\* main() has validated the request, written the secrets and the state file
\* and daemonized; wrapper() is about to compose the command
InitLog ==
    /\ \E d \in Requests :
         LET s0 == [InitialState EXCEPT !["internal"].throttling_file = "throttle"]
             w == Write(SeedDisks(s0, d), [p \in Paths |-> Absent])
         IN /\ d.vm_name
            /\ d.transport_method = "vddk"
            /\ d.secrets = {"vmware_password"}
            /\ d.throttling = "absent"
            /\ d.targets \in {{"rhv_url"}, {"osp_environment"}, {}}
            /\ Detect(d) # "unknown"
            /\ data = d
            /\ state = w.mem
            /\ files = w.files
            /\ password_files = SecretFilesFor(d)
            /\ secretsOnDisk = Range(SecretFilesFor(d))
            /\ daemonized = d.daemonize
            /\ phases = PhaseOrder(d)
    /\ StoreQuiet
    /\ pc = "w_run"
    /\ vault = "absent"
    /\ exc = "none"
    /\ exitStatus = -1
    /\ conv = NoConv
    /\ agent = "none"
    /\ stdoutLines = 1
    /\ ticks = 0
    /\ calls = << >>
    /\ MonQuiet
    /\ ifaceRate = [i \in Interfaces |-> MAX_RATE]
    /\ domainType = "nfs"
    /\ options = ValidatedOptions(Detect(data), NoOptions, domainType)
    /\ runs \in {p \in [1..2 -> RunInputs] :
                    /\ SameButSecrets(p[1].environ, p[2].environ)
                    /\ SameButSecrets(p[1].osp_environment, p[2].osp_environment)}
    /\ wrapperLog = [r \in 1..2 |-> << >>]
    /\ CleanupOff
    /\ HelpersOff
    /\ ChunksOff

NextLog ==
    \/ W_Run
    \/ W_Pid

SpecLog == InitLog /\ [][NextLog]_vars

\* C24 as claimed: no line of the wrapper log holds the value of an argument
\* or of an environment variable whose name has `password` in it, in
\* whatever case, and two runs that differ only in such values write the
\* same log; the line about the converter's command and the line about the
\* service manager's launcher, with its --setenv options, included.
C24_PasswordsNotLogged ==
    /\ \A r \in 1..2 : \A i \in 1..Len(wrapperLog[r]) :
          \A j \in 1..Len(wrapperLog[r][i].items) :
             HasPassword(wrapperLog[r][i].items[j].name)
                => wrapperLog[r][i].items[j].value = "*****"
    /\ wrapperLog[1] = wrapperLog[2]

----------------------------------------------------------------------------
(* VDSMHost.handle_cleanup on its own, with the engine around it            *)

\* list.remove(x): the list without the first x
RECURSIVE ListRemove(_, _)
ListRemove(seq, x) ==
    IF seq = << >> THEN << >>
    ELSE IF Head(seq) = x THEN Tail(seq)
    ELSE <<Head(seq)>> \o ListRemove(Tail(seq), x)

\* handle_cleanup, "First stop all active transfers": the transfers of the
\* disks in disk_ids are cancelled one after the other and their disks taken
\* off disk_ids; an sdk.Error ends the cancelling and is logged.  cancelled
\* is the set of transfers that were cancelled before that.  With Python 3
\* the ids in disk_ids are bytes, no transfer's image id is among them.
CancelTransfers(ids, cancelled, py) ==
    IF py = 3 THEN ids
    ELSE SelectSeq(ids, LAMBDA d : d \notin cancelled)

\* handle_cleanup, one round of `for disk_id in disk_ids[:]`: out[i] is what
\* the engine answers for the i-th disk of the copy.  disk_ids loses the
\* disks that were removed and the disks the engine does not know; the
\* disks that are not OK and the disks whose call raised sdk.Error stay.
RECURSIVE RemovePass(_, _, _)
RemovePass(ids, copy, out) ==
    IF copy = << >> THEN ids
    ELSE RemovePass(IF Head(out) \in {"removed", "not_found"}
                    THEN ListRemove(ids, Head(copy)) ELSE ids,
                    Tail(copy), Tail(out))

\* handle_cleanup, one round of `for disk_id in disk_ids[:]`: the disks the
\* engine is asked for, in order.  The loop takes the k-th item of the copy
\* while there is one; disk_ids changes meanwhile, the copy does not.
RECURSIVE PassAsked(_, _, _, _)
PassAsked(ids, copy, out, k) ==
    IF k > Len(copy) THEN << >>
    ELSE <<copy[k]>>
         \o PassAsked(IF out[k] \in {"removed", "not_found"}
                      THEN ListRemove(ids, copy[k]) ELSE ids,
                      copy, out, k + 1)

\* What the engine can answer for a disk of the given status
DiskAnswers(status) ==
    CASE status = "ok" -> {"removed", "error"}
      [] status = "locked" -> {"busy", "error"}
      [] OTHER -> {"not_found"}

\* The converter has reported some disks; the engine has them in some
\* status, some with a transfer going on
InitCleanup ==
    /\ state = InitialState
    /\ files = [p \in Paths |-> Absent]
    /\ StoreQuiet
    /\ CtlOff
    /\ MonQuiet
    /\ ifaceRate = [i \in Interfaces |-> MAX_RATE]
    /\ domainType = "nfs"
    /\ options = NoOptions
    /\ runs = [r \in 1..2 |-> PlainRun]
    /\ wrapperLog = [r \in 1..2 |-> << >>]
    /\ python \in {2, 3}
    /\ HelpersOff
    /\ \E ids \in UNION {[1..n -> CleanupIds] : n \in 0..Cardinality(CleanupIds)} :
         /\ \A i, j \in DOMAIN ids : i # j => ids[i] # ids[j]
         /\ cleanup = [pc |-> "c_cancel", disk_ids |-> ids, late |-> FALSE]
    /\ engine \in [status : [CleanupIds -> {"ok", "locked", "gone"}],
                   transfers : SUBSET CleanupIds,
                   asked : {<< >>}]
    /\ ChunksOff

\* handle_cleanup: cancel the transfers, then endt = time.time() + TIMEOUT
C_Cancel ==
    /\ cleanup.pc = "c_cancel"
    /\ \E cancelled \in SUBSET (engine.transfers \cap Range(cleanup.disk_ids)) :
         /\ cleanup' = [cleanup EXCEPT
                          !.pc = "c_loop",
                          !.disk_ids = CancelTransfers(cleanup.disk_ids, cancelled, python)]
         /\ engine' = [engine EXCEPT
                         !.transfers = IF python = 3 THEN @ ELSE @ \ cancelled]
    /\ UNCHANGED <<storeVars, ctlVars, monVars, tcVars, reqVars, logVars, helperVars, chunkVars, python>>

\* handle_cleanup: `while len(disk_ids) > 0`, one round over disk_ids[:]
\* (not a list with Python 3: TypeError), then the look at the clock
C_Pass ==
    /\ cleanup.pc = "c_loop"
    /\ IF cleanup.disk_ids = << >>
       THEN cleanup' = [cleanup EXCEPT !.pc = "c_done"] /\ UNCHANGED engine
       ELSE IF python = 3
       THEN /\ cleanup' = [cleanup EXCEPT !.pc = "c_raised"]
            /\ engine' = [engine EXCEPT !.asked = << >>]
       ELSE \E out \in [1..Len(cleanup.disk_ids) -> {"removed", "busy", "not_found", "error"}],
               late \in {cleanup.late, TRUE} :
              LET left == RemovePass(cleanup.disk_ids, cleanup.disk_ids, out)
              IN /\ \A i \in 1..Len(cleanup.disk_ids) :
                      out[i] \in DiskAnswers(engine.status[cleanup.disk_ids[i]])
                 /\ engine' = [engine EXCEPT
                        !.status =
                          [d \in CleanupIds |->
                              IF \E i \in 1..Len(cleanup.disk_ids) :
                                   cleanup.disk_ids[i] = d /\ out[i] = "removed"
                              THEN "gone" ELSE @[d]],
                        !.asked = PassAsked(cleanup.disk_ids, cleanup.disk_ids, out, 1)]
                 /\ cleanup' = [pc |-> IF left = << >> THEN "c_done"
                                        ELSE IF late THEN "c_timed_out"
                                        ELSE "c_sleep",
                                disk_ids |-> left,
                                late |-> late]
    /\ UNCHANGED <<storeVars, ctlVars, monVars, tcVars, reqVars, logVars, helperVars, chunkVars, python>>

\* handle_cleanup: time.sleep(1) returns; the deadline may have passed
C_Sleep ==
    /\ cleanup.pc = "c_sleep"
    /\ \E late \in {cleanup.late, TRUE} :
         cleanup' = [cleanup EXCEPT !.pc = "c_loop", !.late = late]
    /\ UNCHANGED <<storeVars, ctlVars, monVars, tcVars, reqVars, logVars, helperVars, chunkVars,
                   engine, python>>

\* The engine finishes what kept a disk locked, or drops the disk
DiskSettles ==
    /\ cleanup.pc = "c_sleep"
    /\ \E d \in CleanupIds, st \in {"ok", "gone"} :
         /\ engine.status[d] = "locked"
         /\ engine' = [engine EXCEPT !.status[d] = st]
    /\ UNCHANGED <<storeVars, ctlVars, monVars, tcVars, reqVars, logVars, helperVars, chunkVars,
                   cleanup, python>>

NextCleanup ==
    \/ C_Cancel
    \/ C_Pass
    \/ C_Sleep
    \/ DiskSettles

SpecCleanup == InitCleanup /\ [][NextCleanup]_vars

\* C25 as claimed: the disk-removal loop ends as soon as every pending disk
\* id has been removed or reported not-found, and otherwise after the first
\* pass that completes past the deadline; nothing else ends it, and a disk
\* that is not OK or whose call failed is still pending.
C25_CleanupEnds ==
    /\ cleanup.pc \in {"c_cancel", "c_loop", "c_sleep", "c_done", "c_timed_out"}
    /\ cleanup.pc = "c_done" => cleanup.disk_ids = << >>
    /\ cleanup.pc = "c_timed_out" => (cleanup.late /\ cleanup.disk_ids # << >>)
    /\ cleanup.pc = "c_sleep" => (~cleanup.late /\ cleanup.disk_ids # << >>)

----------------------------------------------------------------------------
(* Helpers of the hosts, each called once on arguments from a bounded set   *)

\* The helper returned value / raised the exception e
Returned(value) == [raised |-> "none", returned |-> TRUE, value |-> value]
Raised(e) == [raised |-> e, returned |-> FALSE, value |-> << >>]

\* ---- CNVHost.update_progress

\* An operation of a JSON patch; the value is << >> for {} and
\* <<sum, count>> for the number sum/count
PatchOp(path, value) == [op |-> "add", path |-> path, value |-> value]

RECURSIVE Sum(_)
Sum(seq) == IF seq = << >> THEN 0 ELSE Head(seq) + Sum(Tail(seq))

\* update_progress: sum(disks)/len(disks), 0 without disks
Progress(disks) == IF Len(disks) > 0 THEN <<Sum(disks), Len(disks)>> ELSE <<0, 1>>

\* CNVHost.update_progress(): disks are the progress values of
\* state['disks'], pod tells which of metadata and metadata.annotations the
\* pod's description has.  The progress is added to the patch, and the patch
\* sent, inside `if 'annotations' not in pod['metadata']`.
UpdateProgress(disks, pod) ==
    LET metadata == IF pod.metadata THEN << >>
                    ELSE <<PatchOp("/metadata", << >>)>>
    IN IF pod.metadata /\ pod.annotations
       THEN [sent |-> FALSE, patch |-> metadata]
       ELSE [sent |-> TRUE,
             patch |-> metadata \o
                <<PatchOp("/metadata/annotations", << >>),
                  PatchOp("/metadata/annotations/v2vConversionProgress",
                          Progress(disks))>>]

U_UpdateProgress ==
    /\ call.fn = "update_progress"
    /\ ~result.returned /\ result.raised = "none"
    /\ result' = Returned(UpdateProgress(call.disks, call.pod))
    /\ UNCHANGED <<storeVars, ctlVars, monVars, tcVars, reqVars, logVars,
                   cleanupVars, chunkVars, call>>

\* ---- OSPHost._get_disk_name

\* index up to which _get_disk_name is called
MaxIndex == 704

Letters ==
    <<"a", "b", "c", "d", "e", "f", "g", "h", "i", "j", "k", "l", "m",
      "n", "o", "p", "q", "r", "s", "t", "u", "v", "w", "x", "y", "z">>

\* A bug _get_disk_name could have: no `index = index - 1`
GetDiskNameFromZero(index) ==
    IF index < 1 \/ index > 702 THEN Raised("ValueError")
    ELSE Returned(<<"vd">>
                  \o (IF index \div 26 = 0 THEN << >>
                      ELSE <<Letters[index \div 26]>>)
                  \o <<Letters[(index % 26) + 1]>>)

\* OSPHost._get_disk_name(index); enumid(i) is Letters[i + 1]
GetDiskName(index) ==
    IF index < 1 THEN Raised("ValueError")
    ELSE IF index > 702 THEN Raised("ValueError")
    ELSE LET one == (index - 1) \div 26
             two == (index - 1) % 26
         IN Returned(<<"vd">>
                     \o (IF one = 0 THEN << >> ELSE <<Letters[(one - 1) + 1]>>)
                     \o <<Letters[two + 1]>>)

U_GetDiskName ==
    /\ call.fn = "_get_disk_name"
    /\ ~result.returned /\ result.raised = "none"
    /\ result' = GetDiskName(call.index)
    /\ UNCHANGED <<storeVars, ctlVars, monVars, tcVars, reqVars, logVars,
                   cleanupVars, chunkVars, call>>

\* ---- OSPHost._check_ip_in_network

\* network sizes up to which _check_ip_in_network is called
MaxNetSize == 42

\* Addresses, an octet after the other
Addresses ==
    {<<192, 168, 0, 42>>, <<192, 168, 1, 42>>, <<192, 168, 0, 0>>,
     <<192, 169, 0, 0>>, <<64, 168, 0, 42>>, <<10, 0, 0, 1>>,
     <<0, 0, 0, 0>>, <<255, 255, 255, 255>>}

\* format(n, 'b'): the binary digits of n, the first one first
RECURSIVE FormatB(_)
FormatB(n) == IF n < 2 THEN <<n>> ELSE FormatB(n \div 2) \o <<n % 2>>

\* format(n, '08b'): zeros in front up to eight digits
Format08b(n) == [i \in 1..(8 - Len(FormatB(n))) |-> 0] \o FormatB(n)

\* OSPHost._ip_to_binary
IpToBinary(ipaddr) ==
    Format08b(ipaddr[1]) \o Format08b(ipaddr[2])
    \o Format08b(ipaddr[3]) \o Format08b(ipaddr[4])

\* A bug _get_prefix_bin could have: the host part, ipaddr_bin[0:32-netsize]
GetPrefixBinHostPart(ipaddr, netsize) ==
    SubSeq(IpToBinary(ipaddr), 1, IF netsize > 32 THEN 0 ELSE 32 - netsize)

\* OSPHost._get_prefix_bin: ipaddr_bin[0:32-(32-netsize)]; a slice past
\* the end is the whole string
GetPrefixBin(ipaddr, netsize) ==
    LET ipaddr_bin == IpToBinary(ipaddr)
        stop == 32 - (32 - netsize)
    IN SubSeq(ipaddr_bin, 1, IF stop > Len(ipaddr_bin) THEN Len(ipaddr_bin) ELSE stop)

\* OSPHost._check_ip_in_network(ipaddr, 'netaddr/netsize')
CheckIpInNetwork(ipaddr, netaddr, netsize) ==
    GetPrefixBin(ipaddr, netsize) = GetPrefixBin(netaddr, netsize)

U_CheckIpInNetwork ==
    /\ call.fn = "_check_ip_in_network"
    /\ ~result.returned /\ result.raised = "none"
    /\ result' = Returned(CheckIpInNetwork(call.ipaddr, call.netaddr, call.netsize))
    /\ UNCHANGED <<storeVars, ctlVars, monVars, tcVars, reqVars, logVars,
                   cleanupVars, chunkVars, call>>

\* ---- VDSMHost._filter_iso_names

\* names in the listing _filter_iso_names is called on
MaxIsos == 3

\* A name of the listing: what the patterns tell apart (the beginning, the
\* version as the codes of its characters, the end) and whether
\* os.path.isfile holds of it
IsoName(stem, version, file) ==
    [stem |-> stem, version |-> version, ext |-> ".iso", file |-> file]
\* best_name = None
NoIso == [stem |-> "", version |-> << >>, ext |-> "", file |-> FALSE]

\* a.iso, virtio-win-123.iso, RHEV-toolsSetup_123.iso,
\* RHEV-toolsSetup_234.iso, rhev-toolssetup_234.iso, rhv-tools-setup.iso,
\* RHEV-toolsSetup_4.0_3.iso, RHEV-toolsSetup_4.1_3.iso, and a directory
\* RHV-toolsSetup_234.iso
IsoNames ==
    {IsoName("a", << >>, TRUE),
     IsoName("virtio-win-", <<49, 50, 51>>, TRUE),
     IsoName("RHEV-toolsSetup_", <<49, 50, 51>>, TRUE),
     IsoName("RHEV-toolsSetup_", <<50, 51, 52>>, TRUE),
     IsoName("rhev-toolssetup_", <<50, 51, 52>>, TRUE),
     IsoName("rhv-tools-setup", << >>, TRUE),
     IsoName("RHEV-toolsSetup_", <<52, 46, 48, 95, 51>>, TRUE),
     IsoName("RHEV-toolsSetup_", <<52, 46, 49, 95, 51>>, TRUE),
     IsoName("RHV-toolsSetup_", <<50, 51, 52>>, FALSE)}

\* VDSMHost.TOOLS_PATTERNS: priority, the text before the version, the
\* characters of the version (none: a pattern without a group)
ToolsPattern(priority, stem, chars) ==
    [priority |-> priority, stem |-> stem, chars |-> chars]
TOOLS_PATTERNS ==
    <<ToolsPattern(7, "rhv-toolssetup_", (48..57) \cup {46, 95}),
      ToolsPattern(6, "rhv-tools-setup", {}),
      ToolsPattern(5, "rhev-toolssetup_", (48..57) \cup {46, 95}),
      ToolsPattern(4, "rhev-tools-setup", {}),
      ToolsPattern(3, "ovirt-toolssetup_",
                   (48..57) \cup (97..122) \cup (65..90) \cup {45, 46, 95}),
      ToolsPattern(2, "ovirt-tools-setup", {}),
      ToolsPattern(1, "virtio-win-", (48..57) \cup {46}),
      ToolsPattern(0, "virtio-win", {})>>

\* pat.match(fname), the pattern compiled with re.IGNORECASE
IsoMatch(pat, fname) ==
    /\ Lower(fname.stem) = pat.stem
    /\ fname.ext = ".iso"
    /\ IF pat.chars = {} THEN fname.version = << >>
       ELSE /\ fname.version # << >>
            /\ \A k \in 1..Len(fname.version) : fname.version[k] \in pat.chars

\* a < b for two byte strings
RECURSIVE BytesLess(_, _)
BytesLess(a, b) ==
    IF b = << >> THEN FALSE
    ELSE IF a = << >> THEN TRUE
    ELSE IF Head(a) # Head(b) THEN Head(a) < Head(b)
    ELSE BytesLess(Tail(a), Tail(b))

\* A bug _filter_iso_names could have: the version decides before the
\* priority does
IsoBetterByVersion(best, version, priority) ==
    \/ ~best.found
    \/ BytesLess(best.version, version)
    \/ (best.priority < priority /\ best.version = version)

\* _filter_iso_names: `if best_version is None or best_priority < priority
\* or (best_version < version and best_priority == priority)`
IsoBetter(best, version, priority) ==
    \/ ~best.found
    \/ best.priority < priority
    \/ (BytesLess(best.version, version) /\ best.priority = priority)

\* _filter_iso_names: `for priority, pat in patterns`, from pattern k on
RECURSIVE IsoPatterns(_, _, _)
IsoPatterns(best, fname, k) ==
    IF k > Len(TOOLS_PATTERNS) THEN best
    ELSE LET pat == TOOLS_PATTERNS[k]
             version == IF pat.chars = {} THEN << >> ELSE fname.version
         IN IsoPatterns(IF IsoMatch(pat, fname) /\ IsoBetter(best, version, pat.priority)
                        THEN [found |-> TRUE, name |-> fname, version |-> version,
                              priority |-> pat.priority]
                        ELSE best,
                        fname, k + 1)

\* _filter_iso_names: `for fname in isos`, names that are no files skipped
RECURSIVE IsoListing(_, _)
IsoListing(best, isos) ==
    IF isos = << >> THEN best
    ELSE IsoListing(IF Head(isos).file THEN IsoPatterns(best, Head(isos), 1) ELSE best,
                    Tail(isos))

\* VDSMHost._filter_iso_names(iso_domain, isos)
FilterIsoNames(isos) ==
    IsoListing([found |-> FALSE, name |-> NoIso, version |-> << >>, priority |-> -1],
               isos).name

U_FilterIsoNames ==
    /\ call.fn = "_filter_iso_names"
    /\ ~result.returned /\ result.raised = "none"
    /\ result' = Returned(FilterIsoNames(call.isos))
    /\ UNCHANGED <<storeVars, ctlVars, monVars, tcVars, reqVars, logVars,
                   cleanupVars, chunkVars, call>>

\* ---- SystemdRunner.run and the TcController it constructs

\* What tc answers for an interface that has a root qdisc: whether the root
\* is htb with the handle abc: already, and the first command that fails for
\* the interface
TcAnswers ==
    [ours : BOOLEAN,
     fails : {"none", "qdisc add", "filter add", "class show", "class add"}]

\* TcController._create_qdiscs: show is what `tc qdisc show` gave ("failed":
\* the command failed, "malformed": a line too short, IndexError), roots
\* the answers for the interfaces with a root qdisc
CreateQdiscs(show, roots) ==
    IF show # "ok" THEN [root_handle |-> None, interfaces |-> << >>]
    ELSE LET Managed(i) == roots[i].ours \/ roots[i].fails # "qdisc add"
         IN [root_handle |-> "abc:",
             interfaces |-> SelectSeq([i \in 1..Len(roots) |-> i], Managed)]

\* TcController._prepare, the loop: _create_filter and _create_class for
\* each interface; _create_class lists the classes only while no class id
\* is chosen
RECURSIVE PrepareInterfaces(_, _, _, _)
PrepareInterfaces(roots, todo, kept, class_id) ==
    IF todo = << >> THEN [interfaces |-> kept, class_id |-> class_id]
    ELSE LET fails == roots[Head(todo)].fails
             created == /\ fails # "filter add"
                        /\ class_id # None \/ fails # "class show"
                        /\ fails # "class add"
         IN PrepareInterfaces(roots, Tail(todo),
                IF created THEN Append(kept, Head(todo)) ELSE kept,
                IF created /\ class_id = None THEN "abc:1" ELSE class_id)

\* TcController.__init__ and _prepare: `if root_handle is None: return`
\* comes before _prepare_cgroup, which makes the directory, chowns its
\* tasks file and writes the class id when there is one
TcPrepare(show, roots) ==
    LET q == CreateQdiscs(show, roots)
        p == PrepareInterfaces(roots, q.interfaces, << >>, None)
    IN IF q.root_handle = None
       THEN [interfaces |-> << >>, class_id |-> None, cgroup_dir |-> FALSE,
             tasks_chowned |-> FALSE, classid |-> None]
       ELSE [interfaces |-> p.interfaces, class_id |-> p.class_id,
             cgroup_dir |-> TRUE, tasks_chowned |-> TRUE, classid |-> p.class_id]

\* SystemdRunner.run: _prepare_net_cls, then systemd-run with
\* cgexec -g net_cls:<cgroup>
SystemdRun(show, roots) ==
    [tc |-> TcPrepare(show, roots), launcher |-> <<"systemd-run", "cgexec">>]

U_SystemdRun ==
    /\ call.fn = "SystemdRunner.run"
    /\ ~result.returned /\ result.raised = "none"
    /\ result' = Returned(SystemdRun(call.show, call.roots))
    /\ UNCHANGED <<storeVars, ctlVars, monVars, tcVars, reqVars, logVars,
                   cleanupVars, chunkVars, call>>

\* ---- OSPHost.handle_finish and OSPHost.handle_cleanup, the ports

\* network mappings of a request
MaxNics == 2

\* OSPHost.handle_finish from `# Create ports` on: a port is created for
\* each network mapping (the k-th port has the id k), a failing port-create
\* returns False; state['internal']['ports'] = ports comes after the loop,
\* before the server is created.  fails tells which command fails: none,
\* one before the ports ("early"), the k-th port-create, the server-create.
HandleFinish(ports0, nics, fails) ==
    LET created == [k \in 1..(IF fails.at = "early" THEN 0
                              ELSE IF fails.at = "port" THEN fails.k - 1
                              ELSE nics) |-> k]
    IN [returned |-> fails.at = "none",
        created |-> created,
        ports |-> IF fails.at \in {"none", "server"} THEN created ELSE ports0]

\* OSPHost.handle_cleanup, `# Remove created ports`: the ports named to
\* `port delete`
HandleCleanupPorts(ports) == ports

\* main(): state['failed'] = not host.handle_finish(data, state), then
\* host.handle_cleanup(data, state) for a failed run
U_HandleFinish ==
    /\ call.fn = "handle_finish"
    /\ ~result.returned /\ result.raised = "none"
    /\ LET f == HandleFinish(state["internal"].ports, call.nics, call.fails)
       IN result' = Returned([finish |-> f,
                              deleted |-> IF f.returned THEN << >>
                                          ELSE HandleCleanupPorts(f.ports)])
    /\ UNCHANGED <<storeVars, ctlVars, monVars, tcVars, reqVars, logVars,
                   cleanupVars, chunkVars, call>>

\* ---- the helpers together

InitHelpers ==
    /\ state = InitialState
    /\ files = [p \in Paths |-> Absent]
    /\ StoreQuiet
    /\ CtlOff
    /\ MonQuiet
    /\ ifaceRate = [i \in Interfaces |-> MAX_RATE]
    /\ domainType = "nfs"
    /\ runs = [r \in 1..2 |-> PlainRun]
    /\ CleanupOff
    /\ ChunksOff
    /\ options = NoOptions
    /\ wrapperLog = [r \in 1..2 |-> << >>]
    /\ result = NoResult
    /\ \/ \E disks \in UNION {[1..n -> {0, Float(10, 42), Float(50, 0)}] : n \in 0..MaxSeed},
             metadata, annotations \in BOOLEAN :
             /\ annotations => metadata
             /\ call = [fn |-> "update_progress", disks |-> disks,
                        pod |-> [metadata |-> metadata, annotations |-> annotations]]
       \/ \E index \in -1..MaxIndex :
             call = [fn |-> "_get_disk_name", index |-> index]
       \/ \E ipaddr, netaddr \in Addresses, netsize \in 0..MaxNetSize :
             call = [fn |-> "_check_ip_in_network", ipaddr |-> ipaddr,
                     netaddr |-> netaddr, netsize |-> netsize]
       \/ \E isos \in UNION {[1..n -> IsoNames] : n \in 0..MaxIsos} :
             call = [fn |-> "_filter_iso_names", isos |-> isos]
       \/ \E show \in {"ok", "failed", "malformed"},
             roots \in UNION {[1..n -> TcAnswers] : n \in 0..MaxIfaces} :
             call = [fn |-> "SystemdRunner.run", show |-> show, roots |-> roots]
       \/ \E nics \in 0..MaxNics, at \in {"none", "early", "port", "server"},
             k \in 0..MaxNics :
             /\ IF at = "port" THEN k \in 1..nics ELSE k = 0
             /\ call = [fn |-> "handle_finish", nics |-> nics,
                        fails |-> [at |-> at, k |-> k]]

NextHelpers ==
    \/ U_HandleFinish
    \/ U_SystemdRun
    \/ U_UpdateProgress
    \/ U_GetDiskName
    \/ U_CheckIpInNetwork
    \/ U_FilterIsoNames

SpecHelpers == InitHelpers /\ [][NextHelpers]_vars

\* The call has ended, with a value or with an exception
Ended == result.returned \/ result.raised # "none"

\* C26 as claimed: update_progress sends a patch that sets
\* /metadata/annotations/v2vConversionProgress to the mean of the disks'
\* progress (0 without disks) whether or not /metadata and
\* /metadata/annotations exist on the pod, and the patch adds /metadata and
\* /metadata/annotations only when they are missing.
C26_ProgressPublished ==
    (call.fn = "update_progress" /\ Ended) =>
        LET patch == result.value.patch
            paths == {patch[k].path : k \in 1..Len(patch)}
        IN /\ result.value.sent
           /\ patch # << >>
           /\ patch[Len(patch)] =
                 PatchOp("/metadata/annotations/v2vConversionProgress",
                         IF call.disks = << >> THEN <<0, 1>>
                         ELSE <<Sum(call.disks), Len(call.disks)>>)
           /\ ("/metadata" \in paths) <=> ~call.pod.metadata
           /\ ("/metadata/annotations" \in paths) <=> ~call.pod.annotations

\* The bijective base-26 name of n: no digit zero, a = 1 .. z = 26
RECURSIVE Bijective26(_)
Bijective26(n) ==
    IF n = 0 THEN << >>
    ELSE Bijective26((n - 1) \div 26) \o <<Letters[((n - 1) % 26) + 1]>>

\* C27: _get_disk_name(n) is 'vd' followed by the bijective base-26 name of
\* n for every n in [1,702] (1 vda, 26 vdz, 27 vdaa, 52 vdaz, 53 vdba,
\* 701 vdzy, 702 vdzz), no other index in [1,702] has the same name, and
\* every n < 1 and every n > 702 is rejected with an error.
C27_DiskNaming ==
    (call.fn = "_get_disk_name" /\ Ended) =>
        IF call.index \in 1..702
        THEN /\ result.returned
             /\ result.value = <<"vd">> \o Bijective26(call.index)
             /\ \A m \in (1..702) \ {call.index} :
                   GetDiskName(m).value # result.value
             /\ call.index = 1 => result.value = <<"vd", "a">>
             /\ call.index = 26 => result.value = <<"vd", "z">>
             /\ call.index = 27 => result.value = <<"vd", "a", "a">>
             /\ call.index = 52 => result.value = <<"vd", "a", "z">>
             /\ call.index = 53 => result.value = <<"vd", "b", "a">>
             /\ call.index = 701 => result.value = <<"vd", "z", "y">>
             /\ call.index = 702 => result.value = <<"vd", "z", "z">>
        ELSE result.raised = "ValueError"

\* _get_disk_name(53) has returned vdba
C27_Witness ==
    /\ call.fn = "_get_disk_name"
    /\ call.index = 53
    /\ result.returned
    /\ result.value = <<"vd", "b", "a">>

\* Bit i (1 the most significant, 32 the least) of the 32-bit form of an
\* address
Bit(ipaddr, i) ==
    (ipaddr[((i - 1) \div 8) + 1] \div (2 ^ (7 - ((i - 1) % 8)))) % 2

\* C28: _check_ip_in_network(a, n/s) is true exactly when the first s bits
\* of the 32-bit forms of a and n are equal, all 32 bits when s > 32.
C28_CidrContainment ==
    (call.fn = "_check_ip_in_network" /\ Ended) =>
        /\ result.returned
        /\ result.value =
             (\A i \in 1..(IF call.netsize > 32 THEN 32 ELSE call.netsize) :
                 Bit(call.ipaddr, i) = Bit(call.netaddr, i))

\* 192.168.1.42 in 192.168.0.0/42 has been answered with False, and
\* 192.168.0.42 in 192.168.0.0/24 would be answered with True
C28_Witness ==
    /\ call.fn = "_check_ip_in_network"
    /\ call.ipaddr = <<192, 168, 1, 42>>
    /\ call.netaddr = <<192, 168, 0, 0>>
    /\ call.netsize = 42
    /\ result.returned
    /\ result.value = FALSE
    /\ CheckIpInNetwork(<<192, 168, 0, 42>>, <<192, 168, 0, 0>>, 24)

\* The files of a listing that match one of the ranked patterns, and the
\* priority of the pattern a file matches
IsoMatches(isos) ==
    {f \in {isos[k] : k \in 1..Len(isos)} :
        f.file /\ \E k \in 1..Len(TOOLS_PATTERNS) : IsoMatch(TOOLS_PATTERNS[k], f)}
IsoPriority(f) ==
    CHOOSE p \in 0..7 :
        /\ \E k \in 1..Len(TOOLS_PATTERNS) :
              TOOLS_PATTERNS[k].priority = p /\ IsoMatch(TOOLS_PATTERNS[k], f)
        /\ \A k \in 1..Len(TOOLS_PATTERNS) :
              IsoMatch(TOOLS_PATTERNS[k], f) => TOOLS_PATTERNS[k].priority <= p

\* C29: the ISO _filter_iso_names selects is a file that matches one of the
\* ranked patterns and no match has a higher priority, or the same priority
\* and a greater version string, whatever the order of the listing; nothing
\* is selected when no file matches.
C29_IsoRanking ==
    (call.fn = "_filter_iso_names" /\ Ended) =>
        /\ result.returned
        /\ IF IsoMatches(call.isos) = {} THEN result.value = NoIso
           ELSE /\ result.value \in IsoMatches(call.isos)
                /\ \A f \in IsoMatches(call.isos) :
                      /\ IsoPriority(f) <= IsoPriority(result.value)
                      /\ IsoPriority(f) = IsoPriority(result.value)
                            => ~BytesLess(result.value.version, f.version)

\* rhv-tools-setup.iso has been selected though RHEV-toolsSetup_234.iso,
\* with a greater version and a lower priority, came first in the listing
C29_Witness ==
    /\ call.fn = "_filter_iso_names"
    /\ Len(call.isos) = 2
    /\ call.isos[1] = IsoName("RHEV-toolsSetup_", <<50, 51, 52>>, TRUE)
    /\ result.returned
    /\ result.value = IsoName("rhv-tools-setup", << >>, TRUE)

----------------------------------------------------------------------------
(* parse() on two logs the converter is still writing                       *)

\* lines the converter writes to its text log
MaxChunkLines == 3
\* lines the converter writes to its machine-readable log
MaxMessages == 2

\* A line of the machine-readable log: a JSON object with a type and a
\* message
Message(type, message) == [type |-> type, message |-> message]
Messages == {Message("error", "disk full"), Message("message", "Copying disk 1/1")}
ChunkLines ==
    {Line("copy", 1, 1, ""), Line("nbdkit", 0, 0, PathA),
     Line("progress", 10, 42, ""), Line("other", 0, 0, "")}

\* What readline() returns of a line written in two parts when the first
\* part is read before the second is written: the first part, up to the end
\* of the file, and on a later call the rest, up to the newline.  The line
\* is cut where no expression of the parser matches either part and neither
\* part is JSON.
FirstPart(which) ==
    IF which = "text" THEN Line("first part", 0, 0, "") ELSE Message("first part", "")
Rest(which) ==
    IF which = "text" THEN Line("rest", 0, 0, "") ELSE Message("rest", "")

\* The unread end of a log after the converter has written up to the end of
\* a line: the line, or the rest of it when its first part was read already
Appended(unread, line, started, which) ==
    IF ~started THEN Append(unread, line)
    ELSE IF unread # << >> /\ unread[Len(unread)] = FirstPart(which)
    THEN SubSeq(unread, 1, Len(unread) - 1) \o <<line>>
    ELSE Append(unread, Rest(which))

\* parse(), the loop over the machine-readable log: an error message is
\* reported with error(), a line that is not JSON is logged.  json.loads
\* raises ValueError on such a line, and naming json.decoder.JSONDecodeError
\* in the except clause raises AttributeError where json has no such class
\* (Python 2).
RECURSIVE ParseMachineLog(_, _, _, _, _)
ParseMachineLog(s, fs, errors, lines, py) ==
    IF lines = << >>
    THEN [state |-> s, files |-> fs, surfaced |-> errors, raised |-> "none",
          rest |-> << >>]
    ELSE LET line == Head(lines)
         IN IF line.type \in {"first part", "rest"}
            THEN IF py = 2
                 THEN [state |-> s, files |-> fs, surfaced |-> errors,
                       raised |-> "AttributeError", rest |-> Tail(lines)]
                 ELSE ParseMachineLog(s, fs, errors, Tail(lines), py)
            ELSE IF line.type = "error"
            THEN LET w == ErrorReport(s, fs, line.message)
                 IN ParseMachineLog(w.mem, w.files, Append(errors, line.message),
                                    Tail(lines), py)
            ELSE ParseMachineLog(s, fs, errors, Tail(lines), py)

\* OutputParser.parse(state): the machine-readable log to its end, then the
\* text log to its end
Parse(s, fs, errors, cd, cp, machine, text, py) ==
    LET m == ParseMachineLog(s, fs, errors, machine, py)
        t == ParseLog(m.state, cd, cp, text)
    IN IF m.raised # "none"
       THEN [state |-> m.state, files |-> m.files, surfaced |-> m.surfaced,
             current_disk |-> cd, current_path |-> cp, raised |-> m.raised,
             machine |-> m.rest, text |-> text]
       ELSE [state |-> t.r.state, files |-> m.files, surfaced |-> m.surfaced,
             current_disk |-> t.r.current_disk, current_path |-> t.r.current_path,
             raised |-> t.r.raised, machine |-> << >>, text |-> t.rest]

InitChunks ==
    /\ state = InitialState
    /\ files = [p \in Paths |-> Absent]
    /\ StoreQuiet
    /\ CtlOff
    /\ MonQuiet
    /\ ifaceRate = [i \in Interfaces |-> MAX_RATE]
    /\ domainType = "nfs"
    /\ options = NoOptions
    /\ runs = [r \in 1..2 |-> PlainRun]
    /\ wrapperLog = [r \in 1..2 |-> << >>]
    /\ cleanup = NoCleanup
    /\ engine = [status |-> [d \in CleanupIds |-> "gone"], transfers |-> {},
                asked |-> << >>]
    /\ python \in {2, 3}
    /\ \E text \in UNION {[1..n -> ChunkLines] : n \in 0..MaxChunkLines},
          machine \in UNION {[1..n -> Messages] : n \in 0..MaxMessages} :
         /\ converter = [text |-> text, machine |-> machine, part |-> {}]
         /\ call = [fn |-> "parse", text |-> text, machine |-> machine]
    /\ result = NoResult
    /\ machine_log = << >>
    /\ surfaced = << >>

\* The converter's write reaches one of its logs and ends with a newline
K_Write ==
    /\ \E which \in {"text", "machine"} :
         /\ converter[which] # << >>
         /\ converter' = [converter EXCEPT ![which] = Tail(@), !.part = @ \ {which}]
         /\ IF which = "text"
            THEN /\ log' = Appended(log, Head(converter.text),
                                    "text" \in converter.part, "text")
                 /\ UNCHANGED machine_log
            ELSE /\ machine_log' = Appended(machine_log, Head(converter.machine),
                                            "machine" \in converter.part, "machine")
                 /\ UNCHANGED log
    /\ UNCHANGED <<storeVars, ctlVars, tcVars, reqVars, logVars, cleanupVars,
                   helperVars, surfaced>>
    /\ UNCHANGED <<current_disk, current_path, dropfile, lastLine, announced,
                   linesParsed>>

\* The converter's write reaches one of its logs and ends inside a line
K_WritePart ==
    /\ \E which \in {"text", "machine"} :
         /\ converter[which] # << >>
         /\ which \notin converter.part
         /\ converter' = [converter EXCEPT !.part = @ \cup {which}]
         /\ IF which = "text"
            THEN log' = Append(log, FirstPart("text")) /\ UNCHANGED machine_log
            ELSE machine_log' = Append(machine_log, FirstPart("machine"))
                 /\ UNCHANGED log
    /\ UNCHANGED <<storeVars, ctlVars, tcVars, reqVars, logVars, cleanupVars,
                   helperVars, surfaced>>
    /\ UNCHANGED <<current_disk, current_path, dropfile, lastLine, announced,
                   linesParsed>>

\* wrapper(): parser.parse(state), in the loop or after it
K_Parse ==
    /\ call.fn = "parse"
    /\ result.raised = "none"
    /\ LET p == Parse(state, files, surfaced, current_disk, current_path,
                      machine_log, log, python)
       IN /\ state' = p.state
          /\ files' = p.files
          /\ surfaced' = p.surfaced
          /\ current_disk' = p.current_disk
          /\ current_path' = p.current_path
          /\ machine_log' = p.machine
          /\ log' = p.text
          /\ linesParsed' = linesParsed + (Len(log) - Len(p.text))
          /\ result' = IF p.raised = "none" THEN result ELSE Raised(p.raised)
    /\ UNCHANGED <<wpc, wdoc, lastRead, snapPrev, snapCur, stateAtCall>>
    /\ UNCHANGED <<ctlVars, tcVars, reqVars, logVars, cleanupVars, call, converter>>
    /\ UNCHANGED <<dropfile, lastLine, announced>>

NextChunks ==
    \/ K_Write
    \/ K_WritePart
    \/ K_Parse

SpecChunks == InitChunks /\ [][NextChunks]_vars

\* Everything the converter had to write is written and read
AllParsed ==
    /\ call.fn = "parse"
    /\ converter.text = << >> /\ converter.machine = << >>
    /\ log = << >> /\ machine_log = << >>
    /\ result.raised = "none"

\* C30 as claimed: whatever the interleaving of the converter's writes with
\* the calls of parse(), a call that reads only the first part of a line
\* included, the state and the errors reported once everything is parsed are
\* those of one parse() over the complete logs; no Copying disk, path,
\* progress or error line is lost.
C30_ChunkingInsensitive ==
    AllParsed =>
        LET once == Parse(InitialState, [p \in Paths |-> Absent], << >>,
                          NoneDisk, None, call.machine, call.text, python)
        IN /\ state = once.state
           /\ surfaced = once.surfaced

----------------------------------------------------------------------------
(* Claims about the traffic control of a run and what is left to clean up   *)

\* C31 as claimed: when a systemd runner is started, the classifier cgroup
\* directory of the run exists and its tasks file is chowned before the
\* launcher is invoked with cgexec, also when the qdisc query failed, when
\* no interface could be managed and when a filter or a class could not be
\* created.
C31_CgroupBeforeLaunch ==
    (call.fn = "SystemdRunner.run" /\ Ended) =>
        (result.value.launcher # << >> =>
            result.value.tc.cgroup_dir /\ result.value.tc.tasks_chowned)

\* C32 as claimed: in each pass of the disk-removal loop every disk id that
\* is pending when the pass starts is examined exactly once, though ids are
\* taken off the pending list during the pass: none is skipped and none
\* examined twice.
C32_EachPendingOnce ==
    [][(cleanup.pc = "c_loop" /\ cleanup.disk_ids # << >> /\ cleanup' # cleanup)
         => \A d \in CleanupIds :
              Cardinality({k \in 1..Len(engine'.asked) : engine'.asked[k] = d})
                = IF d \in Range(cleanup.disk_ids) THEN 1 ELSE 0]_vars

\* C33 as claimed: after a failed OpenStack finalize, cleanup deletes every
\* port that finalize created: the id of each port created is in
\* internal.ports when cleanup runs, also when a later port-create or the
\* server-create fails.
C33_PortsDeleted ==
    (call.fn = "handle_finish" /\ Ended /\ ~result.value.finish.returned) =>
        /\ Range(result.value.finish.created) \subseteq Range(result.value.finish.ports)
        /\ Range(result.value.finish.created) \subseteq Range(result.value.deleted)

\* C35 as claimed: no JSON document in the throttling drop-file can fail the
\* run: the round of the loop that reads the file gets to its sleep, with
\* failed as it was and the converter not killed, whatever the document is
\* (unknown keys, strings that match no pattern, values that are not
\* strings, a document that is not an object).
C35_DropFileCannotFail ==
    [][(pc = "w_loop" /\ ticks' = ticks + 1
        /\ dropfile.exists /\ dropfile.readable
        /\ dropfile.content.kind # "malformed" /\ ~dropfile'.exists)
         => /\ pc' = "w_loop"
            /\ Get(state', "failed", FALSE) = Get(state, "failed", FALSE)
            /\ conv' = conv]_vars

\* The drop-file asks for limits that are the ones in force: the normalised
\* value of each key it has is the value in state.throttling
AsksForCurrent(df, s) ==
    /\ df.exists /\ df.readable
    /\ df.content.kind = "object"
    /\ ~IsNumber(df.content.cpu) /\ ~IsNumber(df.content.network)
    /\ df.content.cpu # "absent" \/ df.content.network # "absent"
    /\ df.content.cpu # "absent" => CpuLimit(df.content.cpu) = s["throttling"].cpu
    /\ df.content.network # "absent"
         => NetworkLimit(df.content.network) = s["throttling"].network

\* C36 as claimed: a throttling request whose normalised value is the limit
\* in force is a no-op: no class change is issued, state.throttling stays
\* and no error is reported in last_message.
C36_CurrentLimitNoOp ==
    [][(pc = "w_loop" /\ ticks' = ticks + 1 /\ AsksForCurrent(dropfile, state)
        /\ ~dropfile'.exists)
         => /\ state'["throttling"] = state["throttling"]
            /\ ifaceRate' = ifaceRate
            /\ Get(state', "last_message", [message |-> "", type |-> ""])
                 = Get(state, "last_message", [message |-> "", type |-> ""])]_vars

\* C37 as claimed: no sequence of lines of the text log makes parse_line
\* raise, a disk.id line before any `Copying disk` line and a progress or
\* disk.id line for a disk index past the end of the disks list included.
C37_ParseTotal == (pc = "off" /\ linesParsed > 0) => exc = "none"

----------------------------------------------------------------------------
(* Reconciliation: a run of the converter that copies the seeded disks in   *)
(* an order of its own, as the parser reads its text log                    *)

\* A path of the disks list as an overlay line reports it
RawPath(p) ==
    CASE p = PathA -> "/vmfs/volumes/s1/vm/a-flat.vmdk"
      [] p = PathB -> "/vmfs/volumes/s1/vm/b.vmdk"
      [] OTHER -> "/vmfs/volumes/s1/vm/c.vmdk"

\* The text log of a converter that copies the disks in the given order:
\* `Copying disk k/M`, the path line of the disk in the given form, and a
\* progress line where shown
RECURSIVE ConverterLog(_, _, _, _)
ConverterLog(order, k, form, shown) ==
    IF k > Len(order) THEN << >>
    ELSE <<Line("copy", k, Len(order), ""),
           IF form = "nbdkit" THEN Line("nbdkit", 0, 0, order[k])
           ELSE Line(form, 0, 0, RawPath(order[k]))>>
         \o (IF shown THEN <<Line("progress", 10, 42, "")>> ELSE << >>)
         \o ConverterLog(order, k + 1, form, shown)

\* The path a path line reports, as parse_line takes it
ReportedPath(line) ==
    IF line.kind = "nbdkit" THEN line.s ELSE VmdkPathSub(line.s)

\* main() has seeded the disks list with a permutation of some disk paths
\* and the converter has logged its copy of the same disks
InitReconcile ==
    /\ \E ds \in SourceDiskLists, order \in SourceDiskLists :
         /\ ds # << >>
         /\ Range(order) = Range(ds)
         /\ data = [NoData EXCEPT !.source_disks = ds]
         /\ state = SeedDisks(InitialState, [NoData EXCEPT !.source_disks = ds])
         /\ \E form \in PathKinds, shown \in BOOLEAN :
              log = ConverterLog(order, 1, form, shown)
    /\ files = [p \in Paths |-> Absent]
    /\ StoreQuiet
    /\ pc = "off"
    /\ vault = "absent"
    /\ password_files = << >>
    /\ secretsOnDisk = {}
    /\ exc = "none"
    /\ exitStatus = -1
    /\ conv = NoConv
    /\ agent = "none"
    /\ daemonized = FALSE
    /\ stdoutLines = 0
    /\ ticks = 0
    /\ phases = << >>
    /\ calls = << >>
    /\ current_disk = NoneDisk
    /\ current_path = None
    /\ dropfile = NoDrop
    /\ lastLine = NoLine
    /\ announced = NoAnnounced
    /\ linesParsed = 0
    /\ HostQuiet
    /\ options = NoOptions
    /\ wrapperLog = [r \in 1..2 |-> << >>]

\* state = self.parse_line(state, line) for the next line of the log
R_ParseLine ==
    /\ pc = "off"
    /\ exc = "none"
    /\ linesParsed < Len(log)
    /\ LET line == log[linesParsed + 1]
           r == ParseLine(state, current_disk, current_path, line)
       IN /\ state' = r.state
          /\ current_disk' = r.current_disk
          /\ current_path' = r.current_path
          /\ exc' = r.raised
          /\ lastLine' = line
    /\ linesParsed' = linesParsed + 1
    /\ UNCHANGED <<files, wpc, wdoc, lastRead, snapPrev, snapCur, stateAtCall>>
    /\ UNCHANGED <<pc, data, vault, password_files, secretsOnDisk, exitStatus,
                   conv, agent, daemonized, stdoutLines, ticks, phases, calls>>
    /\ UNCHANGED <<log, dropfile, announced>>
    /\ UNCHANGED hostVars

NextReconcile == R_ParseLine

SpecReconcile == InitReconcile /\ [][NextReconcile]_vars

\* The path lines among the lines of the log read so far
IsPathLine(line) == line.kind \in PathKinds
PathLinesRead == SelectSeq(SubSeq(log, 1, linesParsed), IsPathLine)

\* C38: with the disks list seeded from any permutation of M distinct
\* paths and a log that announces the disks 1..M in order, each followed by
\* its path line, parsing raises nothing, the list keeps its length M, and
\* once the path line of disk k was read the entries 1..k of the list are
\* the paths reported for the disks 1..k; at the end of the log every entry
\* is the path reported for its disk, none twice and none lost.
C38_ReconciliationSorts ==
    /\ exc = "none"
    /\ Len(state["disks"]) = Len(data.source_disks)
    /\ {state["disks"][i].path : i \in 1..Len(state["disks"])}
         = Range(data.source_disks)
    /\ \A k \in 1..Len(PathLinesRead) :
          state["disks"][k].path = ReportedPath(PathLinesRead[k])

\* C38 witness: the list seeded as c, a, b and the converter copying a, b,
\* c; the whole log was read and the list is a, b, c
C38_Witness ==
    /\ data.source_disks = <<PathC, PathA, PathB>>
    /\ linesParsed = Len(log)
    /\ Len(PathLinesRead) = 3
    /\ state["disks"][1].path = PathA
    /\ state["disks"][2].path = PathB
    /\ state["disks"][3].path = PathC
    /\ state["disks"][1].progress = Float(10, 42)

----------------------------------------------------------------------------
(* Claims about the volumes of an OpenStack run                             *)

\* The integer keys of a disk_ids dict
IntKeys(ids) == {n \in 1..8 : IntKey(n) \in DOMAIN ids}

\* OSPHost.handle_finish, "Build volume list": the values of disk_ids in
\* the order of its keys, for a dict that has integer keys only; each
\* volume of the list is then transferred and attached
RECURSIVE BuildVolumeList(_, _)
BuildVolumeList(ids, n) ==
    IF IntKey(n) \notin DOMAIN ids THEN << >>
    ELSE <<ids[IntKey(n)]>> \o BuildVolumeList(ids, n + 1)

\* C39 as claimed: internal.disk_ids never maps two integer keys to the
\* same volume uuid, however often the `openstack volume show` line of a
\* volume appears in the log, so that the list of volumes finalize
\* transfers and attaches names no volume twice.
C39_VolumeRecordedOnce ==
    LET ids == state["internal"].disk_ids
        volumes == BuildVolumeList(ids, 1)
    IN /\ \A m, n \in IntKeys(ids) : m # n => ids[IntKey(m)] # ids[IntKey(n)]
       /\ \A i, j \in 1..Len(volumes) : i # j => volumes[i] # volumes[j]

----------------------------------------------------------------------------
(* Claims about the end of a run                                            *)

\* C34 as claimed: the converter is never left running unsupervised: when
\* the back-end cleanup of a run whose converter was started begins, the
\* converter has exited or the runner has been asked to kill it, also when
\* the failure is an exception while the pid is recorded or the throttling
\* of the request applied, before the monitor loop.
C34_NeverUnsupervised ==
    [][("cleanup" \notin Range(calls) /\ "cleanup" \in Range(calls')
          /\ "running" \in Range(phases))
         => (conv.st = "exited" \/ conv.killed)]_vars

\* C40 as claimed: whenever the persisted snapshot has finished = true, the
\* finalize or cleanup of the run has completed without raising and no
\* secret file of the run is left on disk, on the success path and on every
\* failure path.
C40_FinishedMeansNoSecrets ==
    PersistedFinished =>
        /\ secretsOnDisk = {}
        /\ exc # "handle_cleanup failed"

=============================================================================
